---- MODULE Spec2Model ----
(***************************************************************************)
(* A model of the GitHub contributors crawler (gh-contrib-emails):         *)
(*   - the result store, DataHandler.save_to_excel (data_handler.py);      *)
(*   - the qualification pipeline and the email discovery strategy,        *)
(*     GitHubCrawler.filter_contributors_for_repo (crawler.py) with        *)
(*     GitHubAPIClient.get_commit_email_from_repo (github_api.py) and      *)
(*     get_pinned_repos (scraper.py);                                      *)
(*   - the validity filter is_valid_email (utils.py);                      *)
(*   - the public-events estimate get_commits_from_events (github_api.py); *)
(*   - the yearly contributions get_user_contributions_last_year and the   *)
(*     contributor listing get_repo_contributors (github_api.py);          *)
(*   - the README links get_list_of_repo_urls_from_readme                  *)
(*     (data_handler.py) with parse_repo_url (utils.py);                   *)
(*   - the repository sources extract_repos (crawler.py), the repository   *)
(*     loop process_multiple_repos (crawler.py) and main (main.py);        *)
(*   - the name of the fallback file and two concurrent invocations of     *)
(*     save_to_excel (data_handler.py);                                    *)
(*   - the commit scan _extract_email_from_repo_commits (github_api.py).   *)
(* Each part has its own specification (SpecStore, SpecCrawl, SpecEmail,   *)
(* SpecEvents, SpecYearly, SpecList, SpecReadme, SpecExtract, SpecProcess, *)
(* SpecMain, SpecBackup, SpecConc, SpecCommits); the variables of the      *)
(* other parts stay at their idle value.                                   *)
(***************************************************************************)
EXTENDS Integers, Sequences, FiniteSets, TLC

VARIABLES
    \* ---- result store (data_handler.py)
    target,     \* the active target file: [state, rows]
    fallback,   \* the fallback delimited file as the last call left it
    dir,        \* the other files of the check directory
    args,       \* the arguments of the next save_to_excel call
    last,       \* what the last save_to_excel call did
    \* ---- qualification pipeline and email discovery (crawler.py, github_api.py)
    pc,         \* position in filter_contributors_for_repo
    listed,     \* contributors: the listing get_repo_contributors returned
    high,       \* high_contributors
    idx,        \* index in high of the candidate being processed
    cur,        \* the lookups made for that candidate
    qualified,  \* qualified_contributors
    returned,   \* the list the call returned
    calls,      \* the remote calls made, as <<kind, login>>
    yearlyOf,   \* the yearly contributions looked up, per login (-1: none)
    \* ---- validity filter (utils.py)
    email,      \* the candidate email given to is_valid_email
    valid,      \* the call of is_valid_email: [called, result]
    \* ---- public-events estimate (github_api.py)
    evPc,       \* position in get_commits_from_events
    page,       \* the page requested next
    total_commits,
    evResult,   \* the value returned
    feed,       \* what the feed served and what the scan read of it
    \* ---- yearly contributions (github_api.py)
    token,      \* self.token of the API client
    ycPc,       \* position in get_user_contributions_last_year
    gql,        \* the structured query made and its response
    ycResult,   \* the value returned and where it came from
    \* ---- contributor listing (github_api.py)
    rcPc,       \* position in get_repo_contributors
    rcPage,     \* page, the page requested next
    rcContributors, \* contributors, the accumulated pages
    rcSeen,     \* the pages requested and the entries received
    \* ---- README links (data_handler.py, utils.py)
    seed,       \* the seed repository: [owner, repo]
    readme,     \* the README text, as its words
    links,      \* the call of get_list_of_repo_urls_from_readme: [called, result]
    \* ---- repository sources (crawler.py, github_api.py, utils.py)
    exArgs,     \* the arguments of extract_repos: [google_sheet_url, master_repo]
    exPc,       \* position in extract_repos
    exOut,      \* what extract_repos returned or raised
    exSeen,     \* the README requests made: [requests, last]
    \* ---- driver (main.py, crawler.py)
    mainArgs,   \* the arguments of main besides the two sources: [min_stars]
    mPc,        \* position in main
    params,     \* the parameters of process_multiple_repos
    repo_urls,  \* the list process_multiple_repos goes through
    pmPc,       \* position in process_multiple_repos
    repoIdx,    \* i, the number of the repository at hand
    all_contributors, \* the records accumulated
    pmLog,      \* per repository: the star response, the gates used, the listing call
    \* ---- fallback file name (data_handler.py)
    filename,   \* the target filename given to save_to_excel
    csv,        \* the fallback file name computed: [called, csv_filename]
    \* ---- concurrent invocations of save_to_excel (data_handler.py)
    saver,      \* each concurrent invocation of save_to_excel: [pc, contributors, pre, m]
    lastWriter, \* the invocation whose write last replaced the target file (0: none)
    \* ---- commit scan of one repository (github_api.py)
    history,    \* the author's commits in the repository, newest first: the email each commit's API call yields
    commitScan  \* _extract_email_from_repo_commits in progress: [pc, commits, pos, inspected, result]

storeVars == <<target, fallback, dir, args, last>>

crawlVars == <<pc, listed, high, idx, cur, qualified, returned, calls, yearlyOf>>

emailVars == <<email, valid>>

eventVars == <<evPc, page, total_commits, evResult, feed>>

yearlyVars == <<token, ycPc, gql, ycResult>>

listVars == <<rcPc, rcPage, rcContributors, rcSeen>>

readmeVars == <<seed, readme, links>>

extractVars == <<exArgs, exPc, exOut, exSeen>>

driverVars == <<mainArgs, mPc, params, repo_urls, pmPc, repoIdx, all_contributors, pmLog>>

backupVars == <<filename, csv>>

concVars == <<saver, lastWriter>>

commitVars == <<history, commitScan>>

vars == <<storeVars, crawlVars, emailVars, eventVars, yearlyVars, listVars, readmeVars, extractVars, driverVars, backupVars, concVars, commitVars>>

notStore == <<crawlVars, emailVars, eventVars, yearlyVars, listVars, readmeVars, extractVars, driverVars, backupVars, concVars, commitVars>>

notCrawl == <<storeVars, emailVars, eventVars, yearlyVars, listVars, readmeVars, extractVars, driverVars, backupVars, concVars, commitVars>>

notEmail == <<storeVars, crawlVars, eventVars, yearlyVars, listVars, readmeVars, extractVars, driverVars, backupVars, concVars, commitVars>>

notEvents == <<storeVars, crawlVars, emailVars, yearlyVars, listVars, readmeVars, extractVars, driverVars, backupVars, concVars, commitVars>>

\* get_user_contributions_last_year runs get_commits_from_events as its
\* fallback, so the event variables are not among those it leaves alone.
notYearly == <<storeVars, crawlVars, emailVars, listVars, readmeVars, extractVars, driverVars, backupVars, concVars, commitVars>>

notList == <<storeVars, crawlVars, emailVars, eventVars, yearlyVars, readmeVars, extractVars, driverVars, backupVars, concVars, commitVars>>

notReadme == <<storeVars, crawlVars, emailVars, eventVars, yearlyVars, listVars, extractVars, driverVars, backupVars, concVars, commitVars>>

notExtract == <<storeVars, crawlVars, emailVars, eventVars, yearlyVars, listVars, readmeVars, driverVars, backupVars, concVars, commitVars>>

\* main runs extract_repos, so the extract variables are not among those
\* the driver leaves alone.
notDriver == <<storeVars, crawlVars, emailVars, eventVars, yearlyVars, listVars, readmeVars, backupVars, concVars, commitVars>>

notBackup == <<storeVars, crawlVars, emailVars, eventVars, yearlyVars, listVars, readmeVars, extractVars, driverVars, concVars, commitVars>>

notCommits == <<storeVars, crawlVars, emailVars, eventVars, yearlyVars, listVars, readmeVars, extractVars, driverVars, backupVars, concVars>>

\* Concurrent invocations share the target file and the fallback file with
\* the store.
notConc == <<crawlVars, emailVars, eventVars, yearlyVars, listVars, readmeVars, extractVars, driverVars, backupVars, commitVars>>

\* The parts of the model a specification does not exercise stay idle.
StoreIdle ==
    /\ target = [state |-> "absent", rows |-> <<>>]
    /\ fallback = [written |-> FALSE, rows |-> <<>>]
    /\ dir = {}
    /\ args = [contributors |-> <<>>, check_directory |-> "None"]
    /\ last = [called |-> FALSE]

CrawlIdle ==
    /\ pc = "idle"
    /\ listed = <<>>
    /\ high = <<>>
    /\ idx = 0
    /\ cur = [phase |-> "none"]
    /\ qualified = <<>>
    /\ returned = <<>>
    /\ calls = {}
    /\ yearlyOf = <<>>

EmailIdle ==
    /\ email = <<>>
    /\ valid = [called |-> FALSE, result |-> FALSE]

NothingServed ==
    [served |-> 0, read |-> 0, oldAny |-> FALSE, afterOldAny |-> FALSE,
     oldPush |-> FALSE, afterOldPush |-> FALSE]

EventsIdle ==
    /\ evPc = "idle"
    /\ page = 0
    /\ total_commits = 0
    /\ evResult = 0
    /\ feed = NothingServed

NoQuery == [made |-> FALSE]

NoResult == [source |-> "none", value |-> 0]

YearlyIdle ==
    /\ token = "None"
    /\ ycPc = "idle"
    /\ gql = NoQuery
    /\ ycResult = NoResult

NothingSeen == [requested |-> <<>>, received |-> <<>>, last |-> "none"]

ListIdle ==
    /\ rcPc = "idle"
    /\ rcPage = 0
    /\ rcContributors = <<>>
    /\ rcSeen = NothingSeen

ReadmeIdle ==
    /\ seed = [owner |-> <<>>, repo |-> <<>>]
    /\ readme = <<>>
    /\ links = [called |-> FALSE, result |-> <<>>]

Pending == [kind |-> "pending", urls |-> <<>>]

NoRequest ==
    [requests |-> 0,
     last |-> [kind |-> "none", status |-> 0, quota |-> FALSE, text |-> <<>>]]

ExtractIdle ==
    /\ exArgs = [google_sheet_url |-> "None", master_repo |-> <<>>]
    /\ exPc = "idle"
    /\ exOut = Pending
    /\ exSeen = NoRequest

NoParams == [min_stars |-> 0, min_repo_contributions |-> 0, min_yearly_contributions |-> 0]

DriverIdle ==
    /\ mainArgs = [min_stars |-> 0]
    /\ mPc = "idle"
    /\ params = NoParams
    /\ repo_urls = <<>>
    /\ pmPc = "idle"
    /\ repoIdx = 0
    /\ all_contributors = <<>>
    /\ pmLog = <<>>

CommitsIdle ==
    /\ history = <<>>
    /\ commitScan = [pc |-> "idle"]

ConcIdle ==
    /\ saver = <<>>
    /\ lastWriter = 0

BackupIdle ==
    /\ filename = <<>>
    /\ csv = [called |-> FALSE, csv_filename |-> <<>>]

(***************************************************************************)
(* Result store: DataHandler.save_to_excel                                 *)
(***************************************************************************)

Users == {"alice", "bob", "carol"}

\* A contributor record; repo_name stands for every column other than the
\* key. bob qualifies in two repositories.
Rec(u, r) == [username |-> u, repo_name |-> r]

Records == {Rec("alice", "r1"), Rec("bob", "r1"), Rec("bob", "r2"), Rec("carol", "r2")}

MaxBatch == 2

RECURSIVE SeqsUpTo(_, _)
SeqsUpTo(S, n) ==
    IF n = 0 THEN {<<>>}
    ELSE LET shorter == SeqsUpTo(S, n - 1)
         IN  shorter \cup {Append(s, x) : s \in {t \in shorter : Len(t) = n - 1}, x \in S}

Batches == SeqsUpTo(Records, MaxBatch)

Usernames(rows) == {rows[i].username : i \in 1..Len(rows)}

\* df.drop_duplicates(subset=['username'], keep='first')
DropDuplicates_KeepAll(rows) == rows

DropDuplicates_KeepLast(rows) ==
    LET lasts == SelectSeq([i \in 1..Len(rows) |-> i],
                     LAMBDA i : \A j \in (i + 1)..Len(rows) : rows[j].username # rows[i].username)
    IN  [k \in 1..Len(lasts) |-> rows[lasts[k]]]

DropDuplicates(rows) ==
    LET firsts == SelectSeq([i \in 1..Len(rows) |-> i],
                      LAMBDA i : \A j \in 1..(i - 1) : rows[j].username # rows[i].username)
    IN  [k \in 1..Len(firsts) |-> rows[firsts[k]]]

\* new_df[~new_df['username'].isin(existing_usernames)]
NotIsin(rows, names) == SelectSeq(rows, LAMBDA r : r.username \notin names)

TargetName == "results.xlsx"

\* A file of the check directory: its name, whether the name ends in
\* .xlsx/.xls, whether read_excel of its 'All Contributors' sheet succeeds,
\* and the usernames that sheet holds.
DirFile(n, x, r, u) == [name |-> n, excel |-> x, readable |-> r, usernames |-> u]

DirChoices ==
    { {DirFile("a.xlsx", TRUE, TRUE, {"bob"}),
       DirFile("b.xls", TRUE, FALSE, {"carol"}),
       DirFile("notes.txt", FALSE, TRUE, {"alice"})},
      {DirFile("a.xlsx", TRUE, TRUE, {"bob"}),
       DirFile("c.xls", TRUE, TRUE, {"carol"})} }

NoFile == [state |-> "absent", rows |-> <<>>]

\* os.listdir(check_directory): the other files, and the target file once it
\* exists (the check directory is the one the target is saved in).
ListDir ==
    dir \cup (IF target.state # "absent"
              THEN {DirFile(TargetName, TRUE, target.state = "ok", Usernames(target.rows))}
              ELSE {})

\* The workbooks scanned for duplicates: every .xlsx/.xls file of the
\* directory except the file about to be saved.
ExcelFiles(check_directory) ==
    IF check_directory = "dir"
    THEN {f \in ListDir : f.excel /\ f.name # TargetName}
    ELSE {}

\* Usernames collected from the workbooks that could be read.
ScannedUsernames_None(check_directory) == {}

ScannedUsernames(check_directory) ==
    UNION {f.usernames : f \in {g \in ExcelFiles(check_directory) : g.readable}}

\* check_directory: None, a path that does not exist, or the directory.
CheckDirectories == {"None", "missing", "dir"}

\* How the write of the workbook ends:
\*   ok          every sheet written, file saved;
\*   open_failed ExcelWriter could not open the file: the file is untouched;
\*   partial     an exception after the 'All Contributors' sheet was written:
\*               leaving the with-block saves the sheets written so far;
\*   corrupt     the save itself failed: the file is left truncated.
WriteOutcomes == {"ok", "open_failed", "partial", "corrupt"}

\* Step 3: the rows loaded from the existing target file (none when the file
\* is absent or read_excel raises).
ExistingDf(loadOk) ==
    IF target.state = "ok" /\ loadOk THEN target.rows ELSE <<>>

\* Steps 1-5 of save_to_excel on a non-empty batch.
Merge(contributors, check_directory, loadOk) ==
    LET dedup == DropDuplicates(contributors)
        existing_df == ExistingDf(loadOk)
        existing_usernames ==
            ScannedUsernames(check_directory) \cup Usernames(existing_df)
        duplicates_found == Usernames(dedup) \cap existing_usernames
        new_df == IF duplicates_found # {} THEN NotIsin(dedup, existing_usernames)
                  ELSE dedup
        combined_df == DropDuplicates(existing_df \o new_df)
    IN  [new_df |-> new_df,
         combined_df |-> combined_df,
         removed_internal |-> Len(contributors) - Len(dedup),
         removed_external |-> Len(dedup) - Len(new_df),
         duplicates_found |-> duplicates_found,
         other_files_processed |->
            Cardinality({g \in ExcelFiles(check_directory) : g.readable})]

\* Step 6: the target file after the write.
WrittenTarget_Reloaded(m, wr) ==
    CASE wr \in {"ok", "partial"} ->
            [state |-> "ok",
             rows |-> DropDuplicates((IF target.state = "ok" THEN target.rows ELSE <<>>)
                                     \o m.new_df)]
      [] wr = "open_failed"       -> target
      [] wr = "corrupt"           -> [state |-> "corrupt", rows |-> <<>>]

WrittenTarget(m, wr) ==
    CASE wr \in {"ok", "partial"} -> [state |-> "ok", rows |-> m.combined_df]
      [] wr = "open_failed"       -> target
      [] wr = "corrupt"           -> [state |-> "corrupt", rows |-> <<>>]

Idle == [called |-> FALSE]

NoFallback == [written |-> FALSE, rows |-> <<>>]

\* The except branch of the write, lines 247-252: combined_df.to_csv.
FallbackFile_NewOnly(m, wr) ==
    IF wr = "ok" THEN NoFallback ELSE [written |-> TRUE, rows |-> m.new_df]

FallbackFile(m, wr) ==
    IF wr = "ok" THEN NoFallback ELSE [written |-> TRUE, rows |-> m.combined_df]

\* The columns email, commit_email and website of a record ('' when the
\* profile gave no value under a missing key, NaN for a null value).
ContactColumns(row) ==
    CASE row = Rec("alice", "r1") ->
            [email |-> "alice@x.org", commit_email |-> "", website |-> "NaN"]
      [] row = Rec("bob", "r1") ->
            [email |-> "NaN", commit_email |-> "bob@x.org", website |-> ""]
      [] row = Rec("bob", "r2") ->
            [email |-> "NaN", commit_email |-> "", website |-> ""]
      [] OTHER ->
            [email |-> "", commit_email |-> "", website |-> "https://carol.example"]

\* value.notna() & (value != '')
NotNaNotEmpty(value) == value # "NaN" /\ value # ""

\* has_contact, lines 203-207.
HasContact_EmailOnly(row) == NotNaNotEmpty(ContactColumns(row).email)

HasContact(row) ==
    \/ NotNaNotEmpty(ContactColumns(row).email)
    \/ NotNaNotEmpty(ContactColumns(row).commit_email)
    \/ NotNaNotEmpty(ContactColumns(row).website)

\* The 'Contact Information' sheet, lines 198-214.
ContactSheet(combined_df) == SelectSeq(combined_df, HasContact)

\* The 'Progress Log' sheet, lines 216-229.
ProgressLog_NewAsTotal(m) ==
    [total_contributors |-> Len(m.combined_df),
     new_contributors_added |-> Len(m.combined_df),
     duplicates_removed_internal |-> m.removed_internal,
     duplicates_removed_external |-> m.removed_external,
     excel_files_checked |-> m.other_files_processed]

ProgressLog(m) ==
    [total_contributors |-> Len(m.combined_df),
     new_contributors_added |-> Len(m.new_df),
     duplicates_removed_internal |-> m.removed_internal,
     duplicates_removed_external |-> m.removed_external,
     excel_files_checked |-> m.other_files_processed]

\* list(duplicates_found): the members of the set, each once, in some order.
RECURSIVE ListOf(_)
ListOf(S) ==
    IF S = {} THEN <<>>
    ELSE LET x == CHOOSE y \in S : TRUE IN <<x>> \o ListOf(S \ {x})

\* The 'Duplicates Filtered' sheet, lines 231-239: written only
\* `if duplicates_found`.
DuplicatesSheet_Always(m) ==
    [present |-> TRUE, usernames |-> ListOf(m.duplicates_found)]

DuplicatesSheet(m) ==
    IF m.duplicates_found # {}
    THEN [present |-> TRUE, usernames |-> ListOf(m.duplicates_found)]
    ELSE [present |-> FALSE, usernames |-> <<>>]

\* The sheets other than 'All Contributors' that a call writes (the writer
\* replaces the whole file, so these are the views of the file after a
\* successful write); none when the write did not complete.
Workbook(m, wr) ==
    IF wr = "ok"
    THEN [complete |-> TRUE,
          contact |-> ContactSheet(m.combined_df),
          progress |-> ProgressLog(m),
          duplicates |-> DuplicatesSheet(m)]
    ELSE [complete |-> FALSE]

\* if not contributors: return
IsEmptyBatch_Never(contributors) == FALSE

IsEmptyBatch(contributors) == contributors = <<>>

\* save_to_excel(contributors, filename, check_directory)
SaveToExcel(contributors, check_directory, loadOk, wr) ==
    IF IsEmptyBatch(contributors)
    THEN /\ last' = [called |-> TRUE, empty |-> TRUE, pre |-> target]
         /\ fallback' = NoFallback
         /\ UNCHANGED <<target, dir, args>>
    ELSE LET m == Merge(contributors, check_directory, loadOk)
         IN  /\ target' = WrittenTarget(m, wr)
             /\ fallback' = FallbackFile(m, wr)
             /\ last' = [called |-> TRUE, empty |-> FALSE, pre |-> target,
                         loaded |-> (target.state = "ok" /\ loadOk),
                         wr |-> wr, m |-> m, workbook |-> Workbook(m, wr)]
             /\ UNCHANGED <<dir, args>>

ArgSets == [contributors : Batches, check_directory : CheckDirectories]

InitStore ==
    /\ CommitsIdle
    /\ ConcIdle
    /\ BackupIdle
    /\ DriverIdle
    /\ ExtractIdle
    /\ ReadmeIdle
    /\ ListIdle
    /\ YearlyIdle
    /\ target = NoFile
    /\ fallback = NoFallback
    /\ dir \in DirChoices
    /\ args \in ArgSets
    /\ last = Idle
    /\ CrawlIdle
    /\ EmailIdle
    /\ EventsIdle

\* One run of the store: main calls save_to_excel with the batch at hand.
Save ==
    \E loadOk \in BOOLEAN, wr \in WriteOutcomes :
        /\ (target.state # "ok" => loadOk)
        /\ SaveToExcel(args.contributors, args.check_directory, loadOk, wr)
        /\ UNCHANGED notStore

\* A later crawl produces the batch of the next run.
NewBatch ==
    /\ last.called
    /\ args' \in ArgSets \ {args}
    /\ last' = Idle
    /\ fallback' = NoFallback
    /\ UNCHANGED <<target, dir>>
    /\ UNCHANGED notStore

NextStore == Save \/ NewBatch

SpecStore == InitStore /\ [][NextStore]_vars

(***************************************************************************)
(* Claims about the result store                                           *)
(***************************************************************************)

NoDupUsernames(rows) ==
    \A i, j \in 1..Len(rows) : rows[i].username = rows[j].username => i = j

\* The rows the last call wrote: the 'All Contributors' sheet when the
\* workbook was written, the fallback file otherwise.
WrittenRows ==
    IF last.wr \in {"ok", "partial"} THEN target.rows ELSE fallback.rows

Ran == last.called /\ ~last.empty

\* C1: after any sequence of save_to_excel runs on the same target file, with
\* any batches and with or without a check directory, every username occurs at
\* most once among the rows a run writes (the 'All Contributors' sheet of the
\* target file, and the fallback file when the workbook could not be written).
C1_UniqueUsernames ==
    /\ NoDupUsernames(target.rows)
    /\ NoDupUsernames(fallback.rows)

\* A run on an existing file whose batch held the same username twice wrote
\* the existing rows and one new row.
C1_Witness ==
    /\ Ran
    /\ last.wr = "ok"
    /\ last.pre.state = "ok" /\ last.pre.rows # <<>>
    /\ last.m.removed_internal > 0
    /\ Len(last.m.new_df) > 0
    /\ Len(target.rows) > Len(last.pre.rows)

\* C2: for any existing target file with rows E and any non-empty batch, the
\* run writes every row of E unchanged followed by exactly the batch records
\* whose username is not in E, and the usernames written are those of E
\* together with those of the batch. Stated for the runs the claim's example
\* is about: no check directory, no username twice in the batch, and the
\* workbook written.
C2_AsClaimed ==
    (/\ Ran /\ last.pre.state = "ok" /\ last.wr = "ok"
     /\ args.check_directory = "None" /\ NoDupUsernames(args.contributors)) =>
        LET E == last.pre.rows
            B == args.contributors
        IN  /\ target.rows = E \o SelectSeq(B, LAMBDA r : r.username \notin Usernames(E))
            /\ Usernames(target.rows) = Usernames(E) \cup Usernames(B)

\* C3: a run with batch B that wrote the workbook, followed by a second run
\* with the same arguments that also writes the workbook, adds zero rows: the
\* 'All Contributors' rows after the second run are those after the first.
C3_AsClaimed ==
    [][ (Ran /\ last.wr = "ok" /\ args' = args /\ last'.called /\ last'.wr = "ok")
            => target'.rows = target.rows ]_vars

\* C4: across any sequence of runs the usernames stored in the target file
\* never lose a member, whatever the outcome of loading the existing file.
\* Stated for the runs that write the workbook.
C4_AsClaimed ==
    [][ (last'.called /\ ~last'.empty /\ last'.wr = "ok")
            => Usernames(target.rows) \subseteq Usernames(target'.rows) ]_vars

\* The rows the last run loaded from the target file.
LoadedRows == IF last.loaded THEN last.pre.rows ELSE <<>>

\* The usernames held by the readable workbooks of the check directory
\* other than the target file.
ExternalUsernames ==
    IF args.check_directory = "dir"
    THEN UNION {f.usernames : f \in {g \in dir : g.excel /\ g.readable}}
    ELSE {}

RowSet(rows) == {rows[i] : i \in 1..Len(rows)}

\* C17: when writing the workbook fails at any point, save_to_excel writes
\* the combined record set (the rows loaded from the target followed by the
\* surviving new rows) to the fallback file, so every record of the batch
\* that survived deduplication is in the target file or in the fallback
\* file, and every username of the batch is there or was excluded as known.
C17_FallbackHoldsCombined ==
    (Ran /\ last.wr # "ok") =>
        /\ fallback.written
        /\ fallback.rows = LoadedRows \o last.m.new_df
        /\ RowSet(last.m.new_df) \subseteq RowSet(target.rows) \cup RowSet(fallback.rows)
        /\ Usernames(args.contributors)
              \subseteq Usernames(fallback.rows) \cup ExternalUsernames

\* The save of the workbook failed on an existing file: the fallback holds
\* the loaded rows and a new row.
C17_Witness ==
    /\ Ran
    /\ last.wr = "corrupt"
    /\ last.loaded /\ last.pre.rows # <<>>
    /\ Len(last.m.new_df) > 0
    /\ Len(fallback.rows) = Len(last.pre.rows) + Len(last.m.new_df)

\* C20: with a check_directory, no record added by the run has a username
\* held by a readable workbook of that directory other than the target
\* file, and the target file is not scanned as an external file: the number
\* of external files processed counts the other readable workbooks only.
C20_ExternalExcluded ==
    (Ran /\ args.check_directory = "dir") =>
        /\ \A r \in RowSet(WrittenRows) \ RowSet(LoadedRows) :
              r.username \notin ExternalUsernames
        /\ Usernames(last.m.new_df) \cap ExternalUsernames = {}
        /\ last.m.other_files_processed =
              Cardinality({g \in dir : g.excel /\ g.readable})

\* The target file exists in the scanned directory; of the batch one record
\* was excluded as known to another workbook and one was added.
C20_Witness ==
    /\ Ran
    /\ args.check_directory = "dir"
    /\ last.wr = "ok"
    /\ last.loaded /\ last.pre.rows # <<>>
    /\ Usernames(args.contributors) \cap ExternalUsernames # {}
    /\ Len(last.m.new_df) > 0
    /\ Len(target.rows) > Len(last.pre.rows)

\* The usernames of the batch that the run excluded as already known: held
\* by a readable workbook of the check directory or by the loaded target.
ExcludedUsernames ==
    Usernames(args.contributors) \cap (ExternalUsernames \cup Usernames(LoadedRows))

\* C24: the file written by save_to_excel contains a 'Duplicates Filtered'
\* view exactly when at least one batch record was removed because its
\* username was in the exclusion set, and the view then lists exactly the
\* usernames removed for that reason in this run, each once.
C24_DuplicatesView ==
    (Ran /\ last.wr = "ok") =>
        LET view == last.workbook.duplicates
        IN  /\ view.present <=> ExcludedUsernames # {}
            /\ view.present <=> last.m.removed_external > 0
            /\ view.present =>
                  /\ {view.usernames[i] : i \in 1..Len(view.usernames)} = ExcludedUsernames
                  /\ Len(view.usernames) = Cardinality(ExcludedUsernames)

\* Two records of the batch were excluded, one known to another workbook and
\* one to the target file; the view lists both usernames.
C24_Witness ==
    /\ Ran /\ last.wr = "ok"
    /\ last.workbook.duplicates.present
    /\ Len(last.workbook.duplicates.usernames) = 2
    /\ Usernames(args.contributors) \cap ExternalUsernames # {}
    /\ Usernames(args.contributors) \cap Usernames(LoadedRows) # {}

\* The first record of the batch with the username u.
FirstOccurrence(u) ==
    LET B == args.contributors
        i == CHOOSE k \in 1..Len(B) :
                 B[k].username = u /\ \A j \in 1..(k - 1) : B[j].username # u
    IN  B[i]

\* C26: when a username occurs more than once in a batch (it qualified in
\* more than one repository of the run), the record kept is its first
\* occurrence in batch order; the later occurrences are dropped and counted
\* as internal duplicates.
C26_FirstOccurrenceKept ==
    Ran =>
        /\ \A i \in 1..Len(last.m.new_df) :
              last.m.new_df[i] = FirstOccurrence(last.m.new_df[i].username)
        /\ \A r \in RowSet(WrittenRows) \ RowSet(LoadedRows) :
              r = FirstOccurrence(r.username)
        /\ last.m.removed_internal =
              Len(args.contributors) - Cardinality(Usernames(args.contributors))

\* bob qualified in r1 and then in r2: the r1 record was written, the r2
\* record counted as an internal duplicate.
C26_Witness ==
    /\ Ran /\ last.wr = "ok"
    /\ args.contributors = <<Rec("bob", "r1"), Rec("bob", "r2")>>
    /\ Rec("bob", "r1") \in RowSet(target.rows)
    /\ Rec("bob", "r2") \notin RowSet(target.rows)
    /\ last.m.removed_internal = 1

\* A value is present in the column: neither missing nor the empty string.
Present(value) == value \notin {"", "NaN"}

\* C27: the 'Contact Information' view holds exactly the rows of the
\* combined record set with a non-empty value in at least one of email,
\* commit_email and website.
C27_ContactView ==
    (Ran /\ last.wr = "ok") =>
        /\ \A r \in RowSet(last.workbook.contact) : r \in RowSet(target.rows)
        /\ \A r \in RowSet(target.rows) :
              r \in RowSet(last.workbook.contact)
                <=> \/ Present(ContactColumns(r).email)
                    \/ Present(ContactColumns(r).commit_email)
                    \/ Present(ContactColumns(r).website)

\* The file holds a row without any contact value, left out of the view, and
\* rows with a commit email only and with a website only, both in it.
C27_Witness ==
    /\ Ran /\ last.wr = "ok"
    /\ Rec("bob", "r2") \in RowSet(target.rows) \ RowSet(last.workbook.contact)
    /\ Rec("carol", "r2") \in RowSet(last.workbook.contact)

\* C29: in every run with a non-empty batch the statistics account for
\* every batch record: internal duplicates removed + external duplicates
\* removed + new contributors added = batch size; and when the loaded base
\* rows have unique usernames, total contributors = base rows + new
\* contributors added.
C29_StatisticsAddUp ==
    /\ Ran =>
          /\ last.m.removed_internal + last.m.removed_external + Len(last.m.new_df)
                = Len(args.contributors)
          /\ NoDupUsernames(LoadedRows) =>
                Len(last.m.combined_df) = Len(LoadedRows) + Len(last.m.new_df)
    /\ (Ran /\ last.wr = "ok") =>
          LET log == last.workbook.progress
          IN  /\ log.duplicates_removed_internal + log.duplicates_removed_external
                    + log.new_contributors_added = Len(args.contributors)
              /\ NoDupUsernames(LoadedRows) =>
                    log.total_contributors = Len(LoadedRows) + log.new_contributors_added
              /\ log.total_contributors = Len(target.rows)

\* A batch of two on an existing file: one record an external duplicate,
\* one added.
C29_Witness ==
    /\ Ran /\ last.wr = "ok"
    /\ last.loaded /\ last.pre.rows # <<>>
    /\ last.workbook.progress.duplicates_removed_external = 1
    /\ last.workbook.progress.new_contributors_added = 1
    /\ last.workbook.progress.total_contributors = Len(last.pre.rows) + 1

\* C30: save_to_excel called with an empty batch changes nothing on disk:
\* the target file keeps its content or stays absent, and no fallback file
\* is written.
C30_EmptyBatchNoEffect ==
    (last.called /\ args.contributors = <<>>) =>
        /\ target = last.pre
        /\ ~fallback.written

\* An empty batch was given for an existing file with rows.
C30_Witness ==
    /\ last.called /\ last.empty
    /\ args.contributors = <<>>
    /\ target.state = "ok" /\ target.rows # <<>>
    /\ target = last.pre

(***************************************************************************)
(* Qualification pipeline: GitHubCrawler.filter_contributors_for_repo,     *)
(* with the email discovery of get_commit_email_from_repo and the pinned   *)
(* repositories of get_pinned_repos                                        *)
(***************************************************************************)

MaxCands == 2
MaxContributions == 3
MaxYearly == 3
MaxOwn == 11
MaxRecent == 6
MaxPinned == 2

\* The thresholds the call is given.
MinRepoContributions == 2
MinYearlyContributions == 2

\* The own-repository scan stops after the 10th repository (i >= 9, from 0).
OldScanLimit == 10
\* recent_repos[:5]
RecentScanLimit == 5

Min(a, b) == IF a < b THEN a ELSE b

\* A contributor listing: distinct logins 1..n, each with its contribution count.
Listings ==
    UNION {[1..n -> 1..MaxContributions] : n \in 0..MaxCands}

Candidate(l, listing) == [login |-> l, contributions |-> listing[l]]

\* [c for c in contributors if c['contributions'] >= min_repo_contributions]
HighContributors_All(listing) == listing

HighContributors(listing) ==
    SelectSeq(listing, LAMBDA c : c.contributions >= MinRepoContributions)

\* What _extract_email_from_repo_commits returns for one repository: a valid
\* email or None.
Emails == {"e1", "e2"}
ExtractResults == Emails \cup {"None"}

NoLookups == [phase |-> "none"]

\* The lookups of one candidate: the yearly count, the repository lists
\* received, the repositories checked so far and the email found.
NewLookups(y) ==
    [phase |-> "lookups", yearly |-> y, nOld |-> 0, nRecent |-> 0, nPinned |-> 0,
     j |-> 0, checked |-> <<>>, commit_email |-> "None"]

Checked(phase, j, res) == [phase |-> phase, j |-> j, result |-> res]

Call(kind) == <<kind, high[idx].login>>

\* The loop moves to the next candidate, or the call returns the list.
NextCandidate_Retry(q) ==
    /\ qualified' = q
    /\ cur' = NoLookups
    /\ idx' = idx
    /\ pc' = "yearly"
    /\ returned' = returned

NextCandidate(q) ==
    /\ qualified' = q
    /\ cur' = NoLookups
    /\ IF idx < Len(high)
       THEN /\ idx' = idx + 1
            /\ pc' = "yearly"
            /\ returned' = returned
       ELSE /\ idx' = idx
            /\ pc' = "done"
            /\ returned' = q

\* Lines 27-45: the listing arrives and is filtered by repository contributions.
ListContributors ==
    /\ pc = "start"
    /\ \E listing \in Listings :
        /\ listed' = [l \in 1..Len(listing) |-> Candidate(l, listing)]
        /\ high' = HighContributors(listed')
        /\ yearlyOf' = [l \in 1..Len(listing) |-> -1]
        /\ IF high' = <<>>
           THEN pc' = "done" /\ idx' = 0
           ELSE pc' = "yearly" /\ idx' = 1
    /\ UNCHANGED <<cur, qualified, returned, calls>>
    /\ UNCHANGED notCrawl

\* Lines 46-52: the yearly contributions of the candidate are looked up and
\* compared with the threshold.
YearlyLookup ==
    /\ pc = "yearly"
    /\ \E y \in 0..MaxYearly :
        /\ calls' = calls \cup {Call("yearly")}
        /\ yearlyOf' = [yearlyOf EXCEPT ![high[idx].login] = y]
        /\ IF y >= MinYearlyContributions
           THEN /\ pc' = "profile"
                /\ cur' = NewLookups(y)
                /\ UNCHANGED <<idx, qualified, returned>>
           ELSE NextCandidate(qualified)
    /\ UNCHANGED <<listed, high>>
    /\ UNCHANGED notCrawl

\* Line 54: get_user_profile (an empty record on a non-success response).
ProfileLookup ==
    /\ pc = "profile"
    /\ calls' = calls \cup {Call("profile")}
    /\ pc' = "own_repos"
    /\ UNCHANGED <<listed, high, idx, cur, qualified, returned, yearlyOf>>
    /\ UNCHANGED notCrawl

\* get_commit_email_from_repo, lines 206-223: the user's repositories, oldest
\* first. A failed request or an empty list returns None.
OwnRepos ==
    /\ pc = "own_repos"
    /\ calls' = calls \cup {Call("get_commit_email_from_repo")}
    /\ \E ok \in BOOLEAN, n \in 0..MaxOwn :
        /\ (~ok => n = 0)
        /\ IF ok /\ n > 0
           THEN pc' = "old" /\ cur' = [cur EXCEPT !.nOld = n, !.j = 1]
           ELSE pc' = "pinned_req" /\ cur' = cur
    /\ UNCHANGED <<listed, high, idx, qualified, returned, yearlyOf>>
    /\ UNCHANGED notCrawl

OldLoopStops_Never(j) == FALSE

\* if i >= 9: break
OldLoopStops(j) == j >= OldScanLimit

\* Lines 228-241: one repository of the oldest-first list is checked.
CheckOld ==
    /\ pc = "old"
    /\ calls' = calls \cup {Call("_extract_email_from_repo_commits")}
    /\ \E res \in ExtractResults :
        LET log == Append(cur.checked, Checked("old", cur.j, res))
        IN  IF res # "None"
            THEN pc' = "append" /\ cur' = [cur EXCEPT !.checked = log, !.commit_email = res]
            ELSE IF OldLoopStops(cur.j) \/ cur.j = cur.nOld
            THEN pc' = "recent_req" /\ cur' = [cur EXCEPT !.checked = log]
            ELSE pc' = "old" /\ cur' = [cur EXCEPT !.checked = log, !.j = cur.j + 1]
    /\ UNCHANGED <<listed, high, idx, qualified, returned, yearlyOf>>
    /\ UNCHANGED notCrawl

\* Lines 243-255: the most recently updated repositories are requested; the
\* first five are kept. A failed request returns None.
RecentRepos ==
    /\ pc = "recent_req"
    /\ \E ok \in BOOLEAN, n \in 0..MaxRecent :
        /\ (~ok => n = 0)
        /\ IF ok /\ n > 0
           THEN pc' = "recent"
                /\ cur' = [cur EXCEPT !.nRecent = Min(n, RecentScanLimit), !.j = 1]
           ELSE pc' = "pinned_req" /\ cur' = cur
    /\ UNCHANGED <<listed, high, idx, qualified, returned, calls, yearlyOf>>
    /\ UNCHANGED notCrawl

\* Lines 255-264: one of the recent repositories is checked.
CheckRecent ==
    /\ pc = "recent"
    /\ calls' = calls \cup {Call("_extract_email_from_repo_commits")}
    /\ \E res \in ExtractResults :
        LET log == Append(cur.checked, Checked("recent", cur.j, res))
        IN  IF res # "None"
            THEN pc' = "append" /\ cur' = [cur EXCEPT !.checked = log, !.commit_email = res]
            ELSE IF cur.j = cur.nRecent
            THEN pc' = "pinned_req" /\ cur' = [cur EXCEPT !.checked = log]
            ELSE pc' = "recent" /\ cur' = [cur EXCEPT !.checked = log, !.j = cur.j + 1]
    /\ UNCHANGED <<listed, high, idx, qualified, returned, yearlyOf>>
    /\ UNCHANGED notCrawl

\* crawler.py lines 60-62 and 97-99: the own-repository search returned None,
\* so the pinned repositories are fetched. get_pinned_repos raises on a failed
\* profile request; the exception leaves the loop and the call returns [].
PinnedRepos ==
    /\ pc = "pinned_req"
    /\ calls' = calls \cup {Call("get_pinned_repos")}
    /\ \E raises \in BOOLEAN, n \in 0..MaxPinned :
        /\ (raises => n = 0)
        /\ IF raises
           THEN pc' = "done" /\ returned' = <<>> /\ cur' = cur
           ELSE /\ returned' = returned
                /\ IF n > 0
                   THEN pc' = "pinned" /\ cur' = [cur EXCEPT !.nPinned = n, !.j = 1]
                   ELSE pc' = "append" /\ cur' = cur
    /\ UNCHANGED <<listed, high, idx, qualified, yearlyOf>>
    /\ UNCHANGED notCrawl

\* if commit_email: break
PinnedLoopBreaks(res) == res # "None"

\* crawler.py lines 63-67: one pinned repository is checked.
CheckPinned ==
    /\ pc = "pinned"
    /\ calls' = calls \cup {Call("_extract_email_from_repo_commits")}
    /\ \E res \in ExtractResults :
        LET log == Append(cur.checked, Checked("pinned", cur.j, res))
        IN  IF PinnedLoopBreaks(res) \/ cur.j = cur.nPinned
            THEN pc' = "append" /\ cur' = [cur EXCEPT !.checked = log, !.commit_email = res]
            ELSE pc' = "pinned"
                 /\ cur' = [cur EXCEPT !.checked = log, !.commit_email = res, !.j = cur.j + 1]
    /\ UNCHANGED <<listed, high, idx, qualified, returned, yearlyOf>>
    /\ UNCHANGED notCrawl

\* crawler.py lines 70-92: the enriched record is appended
\* ('commit_email': commit_email or '').
AppendRecord ==
    /\ pc = "append"
    /\ NextCandidate(Append(qualified,
            [username |-> high[idx].login,
             repo_contributions |-> high[idx].contributions,
             yearly_contributions |-> cur.yearly,
             commit_email |-> IF cur.commit_email = "None" THEN "" ELSE cur.commit_email]))
    /\ UNCHANGED <<listed, high, calls, yearlyOf>>
    /\ UNCHANGED notCrawl

InitCrawl ==
    /\ CommitsIdle
    /\ ConcIdle
    /\ BackupIdle
    /\ DriverIdle
    /\ ExtractIdle
    /\ ReadmeIdle
    /\ ListIdle
    /\ YearlyIdle
    /\ StoreIdle
    /\ EmailIdle
    /\ EventsIdle
    /\ pc = "start"
    /\ listed = <<>>
    /\ high = <<>>
    /\ idx = 0
    /\ cur = NoLookups
    /\ qualified = <<>>
    /\ returned = <<>>
    /\ calls = {}
    /\ yearlyOf = <<>>

NextCrawl ==
    \/ ListContributors
    \/ YearlyLookup
    \/ ProfileLookup
    \/ OwnRepos
    \/ CheckOld
    \/ RecentRepos
    \/ CheckRecent
    \/ PinnedRepos
    \/ CheckPinned
    \/ AppendRecord

SpecCrawl == InitCrawl /\ [][NextCrawl]_vars

(***************************************************************************)
(* Claims about the qualification pipeline and the email discovery         *)
(***************************************************************************)

\* The remote calls of the commit-email discovery.
EmailCallKinds ==
    {"get_commit_email_from_repo", "get_pinned_repos", "_extract_email_from_repo_commits"}

\* C5: for a candidate whose repository contribution count is below
\* min_repo_contributions no commit-email remote call is ever made
\* (get_commit_email_from_repo, get_pinned_repos,
\* _extract_email_from_repo_commits), whatever the remote responses.
C5_NoEmailCallBelowThreshold ==
    \A c \in calls :
        c[1] \in EmailCallKinds => listed[c[2]].contributions >= MinRepoContributions

\* The call has returned; one listed candidate was below the threshold and
\* another one went through the whole email discovery.
C5_Witness ==
    /\ pc = "done"
    /\ \E l \in 1..Len(listed) : listed[l].contributions < MinRepoContributions
    /\ \E c \in calls : c[1] = "get_pinned_repos"
    /\ \E c \in calls : c[1] = "_extract_email_from_repo_commits"

\* The candidates that cleared both thresholds.
Cleared ==
    {l \in 1..Len(listed) :
        /\ listed[l].contributions >= MinRepoContributions
        /\ yearlyOf[l] >= MinYearlyContributions}

\* C6: every candidate that clears both thresholds contributes exactly one
\* enriched record to the returned list, whatever the outcome of the email
\* discovery for it or for any other candidate of the repository.
C6_AsClaimed ==
    pc = "done" =>
        \A l \in Cleared :
            Cardinality({k \in 1..Len(returned) : returned[k].username = l}) = 1

PhaseRank(ph) == CASE ph = "old" -> 1 [] ph = "recent" -> 2 [] ph = "pinned" -> 3

CountPhase(log, ph) == Cardinality({k \in 1..Len(log) : log[k].phase = ph})

FailedStage ==
    {l \in 1..Len(listed) :
        \/ listed[l].contributions < MinRepoContributions
        \/ (yearlyOf[l] >= 0 /\ yearlyOf[l] < MinYearlyContributions)}

\* C22: within one call each listed candidate moves only forward through
\* listed, filtered-by-repo-contributions, filtered-by-yearly-contributions,
\* enriched: the candidate about to get its yearly lookup has had none
\* before, only candidates above the repository threshold get any lookup, a
\* candidate below the yearly threshold gets no profile or commit-email
\* lookup, a candidate that failed a stage is not the one examined, and a
\* record is appended only for a candidate that cleared both stages.
C22_ForwardOnly ==
    /\ pc = "yearly" => yearlyOf[high[idx].login] = -1
    /\ \A c \in calls : listed[c[2]].contributions >= MinRepoContributions
    /\ \A c \in calls :
          c[1] # "yearly" => yearlyOf[c[2]] >= MinYearlyContributions
    /\ pc \notin {"start", "done"} => high[idx].login \notin FailedStage
    /\ \A k \in 1..Len(qualified) : qualified[k].username \notin FailedStage
    /\ \A k, n \in 1..Len(qualified) :
          qualified[k].username = qualified[n].username => k = n

\* The call returned: the first candidate failed the yearly stage after its
\* single lookup, the second was enriched.
C22_Witness ==
    /\ pc = "done"
    /\ Len(listed) = 2
    /\ yearlyOf[1] >= 0 /\ yearlyOf[1] < MinYearlyContributions
    /\ <<"profile", 1>> \notin calls
    /\ Len(returned) = 1 /\ returned[1].username = 2

(***************************************************************************)
(* Validity filter: is_valid_email (utils.py) with FAKE_EMAIL_PATTERNS     *)
(* (config.py). A string is a sequence of one-character strings.           *)
(***************************************************************************)

FAKE_EMAIL_PATTERNS ==
    << <<"n", "o", "r", "e", "p", "l", "y">>,
       <<"n", "o", "-", "r", "e", "p", "l", "y">>,
       <<"d", "o", "n", "o", "t", "r", "e", "p", "l", "y">>,
       <<"u", "s", "e", "r", "s", ".", "n", "o", "r", "e", "p", "l", "y", ".", "g", "i", "t", "h", "u", "b", ".", "c", "o", "m">>,
       <<"l", "o", "c", "a", "l", "h", "o", "s", "t">>,
       <<"e", "x", "a", "m", "p", "l", "e", ".", "c", "o", "m">>,
       <<"t", "e", "s", "t", ".", "c", "o", "m">> >>

\* A missing email (None).
None == <<"None">>

\* str.lower()
LowerChar(c) ==
    CASE c = "A" -> "a" [] c = "B" -> "b" [] c = "C" -> "c" [] c = "D" -> "d"
      [] c = "E" -> "e" [] c = "F" -> "f" [] c = "G" -> "g" [] c = "H" -> "h"
      [] c = "I" -> "i" [] c = "J" -> "j" [] c = "K" -> "k" [] c = "L" -> "l"
      [] c = "M" -> "m" [] c = "N" -> "n" [] c = "O" -> "o" [] c = "P" -> "p"
      [] c = "Q" -> "q" [] c = "R" -> "r" [] c = "S" -> "s" [] c = "T" -> "t"
      [] c = "U" -> "u" [] c = "V" -> "v" [] c = "W" -> "w" [] c = "X" -> "x"
      [] c = "Y" -> "y" [] c = "Z" -> "z"
      [] OTHER -> c

Lower(str) == [i \in 1..Len(str) |-> LowerChar(str[i])]

\* pattern in str
In(pattern, str) ==
    \E i \in 1..(Len(str) - Len(pattern) + 1) :
        SubSeq(str, i, i + Len(pattern) - 1) = pattern

\* str.split(sep): the pieces between the occurrences of the character sep.
RECURSIVE Split(_, _)
Split(str, sep) ==
    IF \A i \in 1..Len(str) : str[i] # sep
    THEN <<str>>
    ELSE LET at == CHOOSE i \in 1..Len(str) :
                        str[i] = sep /\ \A k \in 1..(i - 1) : str[k] # sep
         IN  <<SubSeq(str, 1, at - 1)>> \o Split(SubSeq(str, at + 1, Len(str)), sep)

is_valid_email_NoLower(e) ==
    IF e = None \/ e = <<>> THEN FALSE
    ELSE IF \E k \in 1..Len(FAKE_EMAIL_PATTERNS) : In(FAKE_EMAIL_PATTERNS[k], e)
    THEN FALSE
    ELSE LET parts == Split(e, "@")
         IN  In(<<"@">>, e) /\ In(<<".">>, parts[Len(parts)])

is_valid_email(e) ==
    IF e = None \/ e = <<>> THEN FALSE
    ELSE IF \E k \in 1..Len(FAKE_EMAIL_PATTERNS) : In(FAKE_EMAIL_PATTERNS[k], Lower(e))
    THEN FALSE
    ELSE LET parts == Split(e, "@")
         IN  In(<<"@">>, e) /\ In(<<".">>, parts[Len(parts)])

\* The pieces the candidate emails are put together from.
EmailTokens ==
    { <<"a">>, <<"B">>, <<"@">>, <<".">>,
      <<"N", "o", "R", "e", "p", "l", "y">>, <<"t", "e", "s", "t", ".", "c", "o", "m">>, <<"l", "o", "c", "a", "l", "h", "o", "s", "t">> }

MaxTokens == 3

RECURSIVE Concat(_)
Concat(ss) == IF ss = <<>> THEN <<>> ELSE ss[1] \o Concat(Tail(ss))

NoReplyAddress == <<"n", "o", "r", "e", "p", "l", "y", "@", "u", "s", "e", "r", "s", ".", "n", "o", "r", "e", "p", "l", "y", ".", "g", "i", "t", "h", "u", "b", ".", "c", "o", "m">>

RealAddress == <<"r", "e", "a", "l", ".", "p", "e", "r", "s", "o", "n", "@", "g", "m", "a", "i", "l", ".", "c", "o", "m">>

EmailInputs ==
    {Concat(ts) : ts \in SeqsUpTo(EmailTokens, MaxTokens)}
        \cup {None, NoReplyAddress, RealAddress,
              <<"a", "@", "B", "@", "a", ".", "a">>, <<"a", ".", "a", "@", "B">>, <<"T", "e", "s", "t", ".", "C", "o", "m", "@", "a", ".", "a">>}

InitEmail ==
    /\ CommitsIdle
    /\ ConcIdle
    /\ BackupIdle
    /\ DriverIdle
    /\ ExtractIdle
    /\ ReadmeIdle
    /\ ListIdle
    /\ YearlyIdle
    /\ StoreIdle
    /\ CrawlIdle
    /\ EventsIdle
    /\ email \in EmailInputs
    /\ valid = [called |-> FALSE, result |-> FALSE]

\* is_valid_email(email)
ValidateEmail ==
    /\ ~valid.called
    /\ valid' = [called |-> TRUE, result |-> is_valid_email(email)]
    /\ UNCHANGED email
    /\ UNCHANGED notEmail

NextEmail == ValidateEmail

SpecEmail == InitEmail /\ [][NextEmail]_vars

\* C8: is_valid_email(e) is true exactly when e is non-empty, the lower-cased
\* e contains none of the FAKE_EMAIL_PATTERNS, e contains '@' and the part
\* after the last '@' contains '.'; of noreply@users.noreply.github.com and
\* real.person@gmail.com only the second is accepted.
ContainsAt(str, pattern, i) ==
    /\ i + Len(pattern) - 1 <= Len(str)
    /\ \A k \in 1..Len(pattern) : str[i + k - 1] = pattern[k]

ValidAsSpecified(e) ==
    /\ e # None
    /\ Len(e) > 0
    /\ \A p \in {FAKE_EMAIL_PATTERNS[k] : k \in 1..Len(FAKE_EMAIL_PATTERNS)} :
          \A i \in 1..Len(e) : ~ContainsAt(Lower(e), p, i)
    /\ \E i \in 1..Len(e) :
          /\ e[i] = "@"
          /\ \A j \in (i + 1)..Len(e) : e[j] # "@"
          /\ \E j \in (i + 1)..Len(e) : e[j] = "."

C8_ValidExactlyWhen ==
    valid.called =>
        /\ valid.result = ValidAsSpecified(email)
        /\ email = NoReplyAddress => valid.result = FALSE
        /\ email = RealAddress => valid.result = TRUE

\* The real address was accepted.
C8_Witness ==
    /\ email = RealAddress
    /\ valid.called
    /\ valid.result = TRUE

(***************************************************************************)
(* Public-events estimate: GitHubAPIClient.get_commits_from_events         *)
(***************************************************************************)

\* Time in days. The cutoff is taken once, when the call starts.
Now == 1000
WindowDays == 365
cutoff_date == Now - WindowDays

\* range(1, 4): the first three pages are requested.
LastPage == 3

MaxEvents == 2
MaxCommits == 2

EventDates == {cutoff_date - 1, cutoff_date, cutoff_date + 1}

\* An event of the feed; payload.commits is present on push events only.
Events ==
    [type : {"PushEvent"}, created_at : EventDates, commits : 0..MaxCommits]
        \cup [type : {"WatchEvent"}, created_at : EventDates, commits : {0}]

\* A response: a status and, with status 200, the events of the page.
Responses ==
    {[status |-> 200, events |-> evs] : evs \in SeqsUpTo(Events, MaxEvents)}
        \cup {[status |-> 500, events |-> <<>>]}

InWindow_Always(event) == TRUE

\* event_date >= cutoff_date
InWindow(event) == event.created_at >= cutoff_date

\* The loop over the events of one page, from event k on: the total, the
\* number of events read and whether the function returned inside the loop.
RECURSIVE ScanFrom(_, _, _)
ScanFrom(events, k, total) ==
    IF k > Len(events)
    THEN [total |-> total, read |-> Len(events), returned |-> FALSE]
    ELSE IF events[k].type = "PushEvent"
    THEN IF InWindow(events[k])
         THEN ScanFrom(events, k + 1, total + events[k].commits)
         ELSE [total |-> total, read |-> k, returned |-> TRUE]
    ELSE ScanFrom(events, k + 1, total)

RECURSIVE ScanFrom_NoReturn(_, _, _)
ScanFrom_NoReturn(events, k, total) ==
    IF k > Len(events)
    THEN [total |-> total, read |-> Len(events), returned |-> FALSE]
    ELSE IF events[k].type = "PushEvent" /\ InWindow(events[k])
    THEN ScanFrom_NoReturn(events, k + 1, total + events[k].commits)
    ELSE ScanFrom_NoReturn(events, k + 1, total)

ScanPage_NoReturn(events, total) == ScanFrom_NoReturn(events, 1, total)

ScanPage(events, total) == ScanFrom(events, 1, total)

\* Commits of the push events of a page that lie in the 365-day window.
RECURSIVE WindowCommits(_)
WindowCommits(events) ==
    IF events = <<>> THEN 0
    ELSE (IF events[1].type = "PushEvent" /\ Now - events[1].created_at <= WindowDays
          THEN events[1].commits ELSE 0) + WindowCommits(Tail(events))

IsOld(event) == Now - event.created_at > WindowDays

\* What is known of the feed after a page: the in-window commits of the pages
\* served and of the events read, whether an out-of-window event (of any
\* type, or a push event) was read, and whether a later event was read or a
\* later page requested after it.
Served(events, n) ==
    LET read == SubSeq(events, 1, n)
        oldAt(i) == IsOld(read[i])
        oldPushAt(i) == IsOld(read[i]) /\ read[i].type = "PushEvent"
    IN  [served |-> feed.served + WindowCommits(events),
         read |-> feed.read + WindowCommits(read),
         oldAny |-> feed.oldAny \/ \E i \in 1..n : oldAt(i),
         afterOldAny |-> \/ feed.afterOldAny
                         \/ feed.oldAny
                         \/ \E i, j \in 1..n : i < j /\ oldAt(i),
         oldPush |-> feed.oldPush \/ \E i \in 1..n : oldPushAt(i),
         afterOldPush |-> \/ feed.afterOldPush
                          \/ feed.oldPush
                          \/ \E i, j \in 1..n : i < j /\ oldPushAt(i)]

InitEvents ==
    /\ CommitsIdle
    /\ ConcIdle
    /\ BackupIdle
    /\ DriverIdle
    /\ ExtractIdle
    /\ ReadmeIdle
    /\ ListIdle
    /\ YearlyIdle
    /\ StoreIdle
    /\ CrawlIdle
    /\ EmailIdle
    /\ evPc = "paging"
    /\ page = 1
    /\ total_commits = 0
    /\ evResult = 0
    /\ feed = NothingServed

\* One round of the page loop, lines 148-170: the request, the status and
\* empty-page checks and the scan of the page's events.
GetEventsPage ==
    /\ evPc = "paging"
    /\ \E response \in Responses :
        IF response.status # 200 \/ response.events = <<>>
        THEN /\ evPc' = "done"
             /\ evResult' = total_commits
             /\ feed' = Served(<<>>, 0)
             /\ UNCHANGED <<page, total_commits>>
        ELSE LET scan == ScanPage(response.events, total_commits)
             IN  /\ total_commits' = scan.total
                 /\ feed' = Served(response.events, scan.read)
                 /\ IF scan.returned \/ page = LastPage
                    THEN evPc' = "done" /\ evResult' = scan.total /\ page' = page
                    ELSE evPc' = "paging" /\ evResult' = evResult /\ page' = page + 1
    /\ UNCHANGED notEvents

NextEvents == GetEventsPage

SpecEvents == InitEvents /\ [][NextEvents]_vars

\* C9: for every feed, get_commits_from_events returns at most the number of
\* commits carried by the feed's push events whose timestamp lies within the
\* trailing 365-day window (pages the function never requested can only add
\* to that number).
C9_LowerBound ==
    evPc = "done" => evResult <= feed.served

\* The function returned a positive count that is below the feed's.
C9_Witness ==
    /\ evPc = "done"
    /\ evResult > 0
    /\ evResult < feed.served

Tokens == {"None", "", "ghp"}

\* `if not self.token` (line 58) takes the fallback for None and for "".
HasToken_Always(t) == TRUE

HasToken(t) == t \notin {"None", ""}

MaxTotal == 2

\* What requests.post and response.json() can give (lines 96-120):
\*   transport   requests.post raises;
\*   a status other than 200;
\*   status 200 with a body that is not JSON, that carries 'errors' (with or
\*   without 'data'), whose 'data' is null, whose 'data.user' is null, or
\*   that carries the contribution calendar with its total.
GqlBodies == {"notjson", "errors", "errors_and_data", "null_data", "no_user", "total"}

GqlResponses ==
    {[made |-> TRUE, transport |-> TRUE, status |-> 0, body |-> "none", total |-> 0]}
    \cup {[made |-> TRUE, transport |-> FALSE, status |-> st, body |-> "none", total |-> 0] :
             st \in {401, 403, 502}}
    \cup {[made |-> TRUE, transport |-> FALSE, status |-> 200, body |-> b, total |-> 0] :
             b \in GqlBodies \ {"total"}}
    \cup {[made |-> TRUE, transport |-> FALSE, status |-> 200, body |-> "total", total |-> n] :
             n \in 0..MaxTotal}

\* How the try block (lines 62-137) ends for a response:
\*   "fallback" through line 104, 110 or the except of line 135
\*   (requests.post raised, response.json() raised, or .get on a null
\*   'data' raised), "zero" through line 115, "total" through line 133.
QueryOutcome(r) ==
    CASE r.transport                     -> "fallback"
      [] r.status # 200                  -> "fallback"
      [] r.body = "notjson"              -> "fallback"
      [] r.body \in {"errors", "errors_and_data"} -> "fallback"
      [] r.body = "null_data"            -> "fallback"
      [] r.body = "no_user"              -> "zero"
      [] OTHER                           -> "total"

\* return self.get_commits_from_events(username): the call starts.
StartEstimate ==
    /\ evPc' = "paging"
    /\ page' = 1
    /\ total_commits' = 0
    /\ evResult' = 0
    /\ feed' = NothingServed

InitYearly ==
    /\ CommitsIdle
    /\ ConcIdle
    /\ BackupIdle
    /\ DriverIdle
    /\ ExtractIdle
    /\ ReadmeIdle
    /\ ListIdle
    /\ StoreIdle
    /\ CrawlIdle
    /\ EmailIdle
    /\ EventsIdle
    /\ token \in Tokens
    /\ ycPc = "start"
    /\ gql = NoQuery
    /\ ycResult = NoResult

\* Lines 58-60: without a token the fallback is called at once.
NoToken ==
    /\ ycPc = "start"
    /\ ~HasToken(token)
    /\ ycPc' = "fallback"
    /\ StartEstimate
    /\ UNCHANGED <<token, gql, ycResult>>
    /\ UNCHANGED notYearly

\* Lines 62-137: the query is posted and its response handled.
PostQuery ==
    /\ ycPc = "start"
    /\ HasToken(token)
    /\ \E r \in GqlResponses :
        /\ gql' = r
        /\ CASE QueryOutcome(r) = "fallback" ->
                    /\ ycPc' = "fallback"
                    /\ StartEstimate
                    /\ UNCHANGED ycResult
             [] QueryOutcome(r) = "zero" ->
                    /\ ycPc' = "done"
                    /\ ycResult' = [source |-> "no_user", value |-> 0]
                    /\ UNCHANGED eventVars
             [] OTHER ->
                    /\ ycPc' = "done"
                    /\ ycResult' = [source |-> "query", value |-> r.total]
                    /\ UNCHANGED eventVars
    /\ UNCHANGED token
    /\ UNCHANGED notYearly

\* get_commits_from_events returned: its value is the value returned.
ReturnEstimate ==
    /\ ycPc = "fallback"
    /\ evPc = "done"
    /\ ycPc' = "done"
    /\ ycResult' = [source |-> "estimate", value |-> evResult]
    /\ UNCHANGED <<token, gql>>
    /\ UNCHANGED eventVars
    /\ UNCHANGED notYearly

NextYearly == NoToken \/ PostQuery \/ GetEventsPage \/ ReturnEstimate

SpecYearly == InitYearly /\ [][NextYearly]_vars

\* The failures the claim names: a transport error, a non-success status, a
\* response carrying an error payload.
QueryFailed(r) ==
    \/ r.transport
    \/ r.status # 200
    \/ r.body \in {"errors", "errors_and_data"}

\* A credential is configured: a token that is neither None nor empty.
Credential == token \notin {"None", ""}

\* C11: get_user_contributions_last_year follows the fallback chain. With no
\* credential it never issues the structured query and returns the
\* public-events estimate; with a credential it issues the query, returns
\* the estimate on a transport error, a non-success status or an error
\* payload, and returns the queried total only for a successful response
\* without error payload.
C11_FallbackChain ==
    /\ ~Credential => ~gql.made
    /\ ycPc = "done" =>
          /\ ~Credential =>
                ycResult = [source |-> "estimate", value |-> evResult]
          /\ Credential =>
                /\ gql.made
                /\ QueryFailed(gql) =>
                      ycResult = [source |-> "estimate", value |-> evResult]
                /\ ycResult.source = "query" =>
                      /\ ~QueryFailed(gql)
                      /\ gql.body = "total"
                      /\ ycResult.value = gql.total

\* A credential, an error payload in a 200 response, and the estimate (one
\* commit in the window) returned.
C11_Witness ==
    /\ ycPc = "done"
    /\ Credential
    /\ gql.made /\ gql.status = 200 /\ gql.body = "errors"
    /\ ycResult = [source |-> "estimate", value |-> 1]
    /\ feed.served >= 1

(***************************************************************************)
(* Contributor listing: GitHubAPIClient.get_repo_contributors              *)
(***************************************************************************)

Logins == {"u1", "u2"}

MaxPerPage == 2

\* The repository has at most MaxPages pages of contributors.
MaxPages == 2

\* What requests.get and response.json() can give for a page (lines 38-45):
\*   transport  requests.get raises (connection error, timeout);
\*   a status other than 200 (403 is also the quota-exceeded status);
\*   notjson    status 200 whose body is not JSON: response.json() raises;
\*   page       status 200 with a list of contributors, possibly empty.
PageResponses(p) ==
    {[kind |-> "transport", status |-> 0, data |-> <<>>],
     [kind |-> "notjson", status |-> 200, data |-> <<>>]}
    \cup {[kind |-> "status", status |-> st, data |-> <<>>] : st \in {403, 404, 500}}
    \cup {[kind |-> "page", status |-> 200, data |-> d] :
             d \in IF p <= MaxPages THEN SeqsUpTo(Logins, MaxPerPage) ELSE {<<>>}}

\* Whether the request or the decoding of its response raises: neither is
\* inside a try block.
PageRaises(r) == r.kind \in {"transport", "notjson"}

InitList ==
    /\ CommitsIdle
    /\ ConcIdle
    /\ BackupIdle
    /\ DriverIdle
    /\ ExtractIdle
    /\ ReadmeIdle
    /\ StoreIdle
    /\ CrawlIdle
    /\ EmailIdle
    /\ EventsIdle
    /\ YearlyIdle
    /\ rcPc = "paging"
    /\ rcPage = 1
    /\ rcContributors = <<>>
    /\ rcSeen = NothingSeen

\* One round of the `while True` loop, lines 34-52.
GetContributorsPage ==
    /\ rcPc = "paging"
    /\ \E r \in PageResponses(rcPage) :
        /\ rcSeen' = [requested |-> Append(rcSeen.requested, rcPage),
                       received |-> rcSeen.received \o r.data,
                       last |-> r.kind]
        /\ CASE PageRaises(r) ->
                    /\ rcPc' = "raised"
                    /\ UNCHANGED <<rcPage, rcContributors>>
             [] r.status # 200 \/ r.data = <<>> ->
                    /\ rcPc' = "returned"
                    /\ UNCHANGED <<rcPage, rcContributors>>
             [] OTHER ->
                    /\ rcPc' = "paging"
                    /\ rcContributors' = rcContributors \o r.data
                    /\ rcPage' = rcPage + 1
    /\ UNCHANGED notList

NextList == GetContributorsPage

SpecList == InitList /\ [][NextList]_vars

\* C12: get_repo_contributors never raises; it requests the pages 1, 2, ...
\* in increasing order until an empty page, and when a page request is
\* unsuccessful it returns the concatenation of the pages received before.
C12_AsClaimed ==
    /\ rcPc # "raised"
    /\ \A i \in 1..Len(rcSeen.requested) : rcSeen.requested[i] = i
    /\ rcPc = "returned" => rcContributors = rcSeen.received

(***************************************************************************)
(* README links: DataHandler.get_list_of_repo_urls_from_readme with        *)
(* parse_repo_url.  A string is a sequence of characters; the scheme       *)
(* "https:" and the host "github.com" are written as one character each.   *)
(***************************************************************************)

OwnerNames == {<<"a">>, <<"A">>, <<"b">>}

RepoNames == {<<"r">>, <<"R">>}

\* f"https://github.com/{owner}/{repo}"
RepoUrl(o, r) == <<"https:", "/", "/", "github.com", "/">> \o o \o <<"/">> \o r

\* The words a README is made of: links to repositories, a link below a
\* repository, a link to another host, plain text.
ReadmeWords ==
    {RepoUrl(o, r) : o \in OwnerNames, r \in RepoNames}
    \cup {RepoUrl(<<"a">>, <<"r">>) \o <<"/", "i", "s", "s", "u", "e", "s">>,
          <<"https:", "/", "/", "gitlab.com", "/", "a", "/", "r">>,
          <<"t", "e", "x", "t">>}

MaxWords == 2

Readmes == SeqsUpTo(ReadmeWords, MaxWords)

\* The part of a word that r'https?://github\.com/[\w\.-]+/[\w\.-]+' matches,
\* <<>> when it matches none: the two path segments after the host.
RegexMatch(word) ==
    LET parts == Split(word, "/")
    IN  IF /\ Len(parts) >= 5
           /\ parts[1] \in {<<"http:">>, <<"https:">>}
           /\ parts[2] = <<>>
           /\ parts[3] = <<"github.com">>
           /\ parts[4] # <<>>
           /\ parts[5] # <<>>
        THEN parts[1] \o <<"/", "/">> \o parts[3] \o <<"/">> \o parts[4] \o <<"/">> \o parts[5]
        ELSE <<>>

\* re.findall over the README.
FindAll(text) ==
    LET matches == [i \in 1..Len(text) |-> RegexMatch(text[i])]
    IN  SelectSeq(matches, LAMBDA m : m # <<>>)

\* str.strip("/") of the path, then split("/").
PathParts(parts) == SelectSeq(SubSeq(parts, 4, Len(parts)), LAMBDA x : x # <<>>)

\* parse_repo_url(repo_url): (owner, repo), or (None, None).
parse_repo_url(repo_url) ==
    LET parts == Split(repo_url, "/")
        ok == /\ Len(parts) >= 3
              /\ parts[1] \in {<<"http:">>, <<"https:">>}
              /\ parts[2] = <<>>
              /\ parts[3] = <<"github.com">>
              /\ Len(PathParts(parts)) = 2
    IN  IF ok THEN <<PathParts(parts)[1], PathParts(parts)[2]>> ELSE <<None, None>>

\* The test of line 63; `target_repo` is never empty.
IsExternal(target_repo, current_repo) == Lower(target_repo) # current_repo

get_list_of_repo_urls_from_readme(text, owner, repo) ==
    LET urls == FindAll(text)
        current_repo == owner \o <<"/">> \o repo
        target_repo(url) == parse_repo_url(url)[1] \o <<"/">> \o parse_repo_url(url)[2]
    IN  SelectSeq(urls, LAMBDA url : IsExternal(target_repo(url), current_repo))

InitReadme ==
    /\ CommitsIdle
    /\ ConcIdle
    /\ BackupIdle
    /\ DriverIdle
    /\ ExtractIdle
    /\ StoreIdle
    /\ CrawlIdle
    /\ EmailIdle
    /\ EventsIdle
    /\ YearlyIdle
    /\ ListIdle
    /\ seed \in [owner : OwnerNames, repo : RepoNames]
    /\ readme \in Readmes
    /\ links = [called |-> FALSE, result |-> <<>>]

ScanReadme ==
    /\ ~links.called
    /\ links' = [called |-> TRUE,
                  result |-> get_list_of_repo_urls_from_readme(readme, seed.owner, seed.repo)]
    /\ UNCHANGED <<seed, readme>>
    /\ UNCHANGED notReadme

NextReadme == ScanReadme

SpecReadme == InitReadme /\ [][NextReadme]_vars

Range(f) == {f[i] : i \in DOMAIN f}

\* The README holds a link to (or below) the repository o/r.
LinksTo(o, r) ==
    \E i \in 1..Len(readme) :
        /\ Len(readme[i]) >= Len(RepoUrl(o, r))
        /\ SubSeq(readme[i], 1, Len(RepoUrl(o, r))) = RepoUrl(o, r)

\* Repository names do not distinguish letter case.
IsSeed(o, r) == Lower(o) = Lower(seed.owner) /\ Lower(r) = Lower(seed.repo)

\* C13: for any seed and README, get_list_of_repo_urls_from_readme returns
\* exactly the linked repositories other than the seed, whatever the letter
\* case of the seed's owner and name: a link to another repository is
\* returned, a link to the seed is not, and nothing else is returned.
C13_AsClaimed ==
    links.called =>
        /\ \A o \in OwnerNames, r \in RepoNames :
              LinksTo(o, r) => (RepoUrl(o, r) \in Range(links.result) <=> ~IsSeed(o, r))
        /\ \A u \in Range(links.result) :
              \E o \in OwnerNames, r \in RepoNames : u = RepoUrl(o, r) /\ LinksTo(o, r)

(***************************************************************************)
(* Repository sources: GitHubCrawler.extract_repos with                    *)
(* GitHubAPIClient.get_repo_readme and is_rate_limit_exceeded              *)
(***************************************************************************)

\* master_repo: None (written <<>>), the URL of a seed repository, or a text
\* that is no repository URL.
MasterRepos ==
    {<<>>, RepoUrl(<<"a">>, <<"r">>), RepoUrl(<<"A">>, <<"r">>), <<"t", "e", "x", "t">>}

SheetUrls == {"None", "sheet"}

\* The repository URLs a sheet can yield (extract_repos_from_google_sheet
\* returns the valid rows, [] when the sheet cannot be read).
MaxRepos == 2

SheetRepos == SeqsUpTo({RepoUrl(<<"a">>, <<"r">>), RepoUrl(<<"b">>, <<"R">>)}, MaxRepos)

\* What the README request can give (lines 328-341 of github_api.py):
\*   transport  requests.get raises;
\*   status     a status other than 200; a 403 whose message holds
\*              'API rate limit exceeded' is the quota-exceeded response;
\*   notjson    status 200, body not JSON: response.json() raises;
\*   nocontent  status 200 without 'content';
\*   content    status 200 with the encoded README.
ReadmeResponses ==
    {[kind |-> "transport", status |-> 0, quota |-> FALSE, text |-> <<>>],
     [kind |-> "status", status |-> 403, quota |-> TRUE, text |-> <<>>],
     [kind |-> "status", status |-> 403, quota |-> FALSE, text |-> <<>>],
     [kind |-> "status", status |-> 404, quota |-> FALSE, text |-> <<>>],
     [kind |-> "notjson", status |-> 200, quota |-> FALSE, text |-> <<>>],
     [kind |-> "nocontent", status |-> 200, quota |-> FALSE, text |-> <<>>]}
    \cup {[kind |-> "content", status |-> 200, quota |-> FALSE, text |-> t] : t \in Readmes}

\* A quota-exceeded response.
QuotaExceeded(r) == r.kind = "status" /\ r.status = 403 /\ r.quota

\* get_repo_readme(owner, repo) on a response: it raises, returns None or
\* returns the decoded text.
get_repo_readme(r) ==
    CASE r.kind \in {"transport", "notjson"} -> [raises |-> TRUE, type |-> "None", text |-> <<>>]
      [] r.kind = "content" /\ r.text # <<>> -> [raises |-> FALSE, type |-> "str", text |-> r.text]
      [] OTHER -> [raises |-> FALSE, type |-> "None", text |-> <<>>]

\* is_rate_limit_exceeded(response): reading .status_code of a value that
\* is no response (None, a str) raises AttributeError.
is_rate_limit_exceeded(v) ==
    IF v.type # "response"
    THEN [raises |-> TRUE, value |-> FALSE]
    ELSE [raises |-> FALSE, value |-> (v.status = 403 /\ v.quota)]

ExtractArgSets == [google_sheet_url : SheetUrls, master_repo : MasterRepos]

InitExtract ==
    /\ CommitsIdle
    /\ ConcIdle
    /\ BackupIdle
    /\ DriverIdle
    /\ StoreIdle
    /\ CrawlIdle
    /\ EmailIdle
    /\ EventsIdle
    /\ YearlyIdle
    /\ ListIdle
    /\ ReadmeIdle
    /\ exArgs \in ExtractArgSets
    /\ exPc = "start"
    /\ exOut = Pending
    /\ exSeen = NoRequest

\* Lines 137-138: neither source given; the error is logged and the function
\* ends without a return statement.
ExtractNoSource ==
    /\ exPc = "start"
    /\ exArgs.google_sheet_url = "None" /\ exArgs.master_repo = <<>>
    /\ exPc' = "returned"
    /\ exOut' = [kind |-> "None", urls |-> <<>>]
    /\ UNCHANGED <<exArgs, exSeen>>
    /\ UNCHANGED notExtract

\* Lines 140-152: the seed repository's README.
ExtractFromSeed ==
    /\ exPc \in {"start", "waiting"}
    /\ exArgs.master_repo # <<>>
    /\ IF exPc = "waiting"
       THEN \* time.sleep(300) inside `while is_rate_limit_exceeded(readme_content)`:
            \* the condition is evaluated again on the same value.
            UNCHANGED <<exPc, exOut, exSeen>>
       ELSE \E r \in ReadmeResponses :
            LET owner == parse_repo_url(exArgs.master_repo)[1]
                repo == parse_repo_url(exArgs.master_repo)[2]
                readme_content == get_repo_readme(r)
                limited == is_rate_limit_exceeded(readme_content)
            IN  /\ exSeen' = [requests |-> exSeen.requests + 1,
                              last |-> r]
                /\ CASE readme_content.raises \/ limited.raises ->
                            exPc' = "raised" /\ exOut' = [kind |-> "raised", urls |-> <<>>]
                     [] limited.value ->
                            exPc' = "waiting" /\ exOut' = exOut
                     [] readme_content.type = "None" ->
                            exPc' = "returned" /\ exOut' = [kind |-> "None", urls |-> <<>>]
                     [] OTHER ->
                            /\ exPc' = "returned"
                            /\ exOut' = [kind |-> "list",
                                          urls |-> get_list_of_repo_urls_from_readme(
                                                       readme_content.text, owner, repo)]
    /\ UNCHANGED exArgs
    /\ UNCHANGED notExtract

\* Lines 155-157: the rows of the sheet.
ExtractFromSheet ==
    /\ exPc = "start"
    /\ exArgs.google_sheet_url # "None" /\ exArgs.master_repo = <<>>
    /\ \E urls \in SheetRepos :
        /\ exPc' = "returned"
        /\ exOut' = [kind |-> "list", urls |-> urls]
    /\ UNCHANGED <<exArgs, exSeen>>
    /\ UNCHANGED notExtract

NextExtract == ExtractNoSource \/ ExtractFromSeed \/ ExtractFromSheet

SpecExtract == InitExtract /\ [][NextExtract]_vars

\* C16: a quota-exceeded response is not treated as a generic or terminal
\* failure: the caller waits and re-issues the identical request until a
\* response that is not quota-exceeded arrives.  Stated for the README
\* request of extract_repos: the call never ends, by a return or by an
\* exception, on a quota-exceeded response.
C16_AsClaimed ==
    exPc \in {"returned", "raised"} => ~QuotaExceeded(exSeen.last)

\* C18: with a seed repository, a README retrieved successfully and no
\* quota-exceeded response, extract_repos returns the list that
\* get_list_of_repo_urls_from_readme computes from that README for the
\* seed's owner and name.
C18_AsClaimed ==
    \A o \in OwnerNames, r \in RepoNames :
        (/\ exPc \in {"returned", "raised"}
         /\ exArgs.master_repo = RepoUrl(o, r)
         /\ exSeen.last.kind = "content" /\ exSeen.last.text # <<>>)
        => exOut = [kind |-> "list",
                    urls |-> get_list_of_repo_urls_from_readme(exSeen.last.text, o, r)]

(***************************************************************************)
(* Driver: GitHubCrawler.process_multiple_repos with                       *)
(* GitHubAPIClient.get_repo_stars, and main                                *)
(***************************************************************************)

DEFAULT_MIN_REPO_CONTRIBUTIONS == 100

DEFAULT_MIN_YEARLY_CONTRIBUTIONS == 400

StarCounts == {0, 50, 100, 1000}

\* What the repository request can give (lines 345-353 of github_api.py):
\*   transport  requests.get raises;
\*   notjson    the body is not JSON: response.json() raises;
\*   nokey      JSON without 'stargazers_count' (an error message);
\*   count      JSON with the star count.
StarResponses ==
    {[kind |-> k, count |-> 0] : k \in {"transport", "notjson", "nokey"}}
    \cup {[kind |-> "count", count |-> n] : n \in StarCounts}

\* get_repo_stars on a response: it raises, returns None or the count.
get_repo_stars(r) ==
    CASE r.kind \in {"transport", "notjson"} -> [raises |-> TRUE, known |-> FALSE, count |-> 0]
      [] r.kind = "nokey" -> [raises |-> FALSE, known |-> FALSE, count |-> 0]
      [] OTHER -> [raises |-> FALSE, known |-> TRUE, count |-> r.count]

\* Lines 115-120: `if not repo_stars: continue`, `if repo_stars < min_stars:
\* continue`.
PassesStarGate(stars, min_stars) ==
    stars.known /\ stars.count # 0 /\ ~(stars.count < min_stars)

\* What filter_contributors_for_repo returns for a repository: a list of
\* records, [] also when anything in it raised.
FilterResults == SeqsUpTo(Records, 1)

NoStarRequest == [kind |-> "none", count |-> 0]

\* One round of the loop of process_multiple_repos, lines 105-130.
ProcessRepo ==
    /\ pmPc = "loop"
    /\ LET repo_url == repo_urls[repoIdx]
           next == IF repoIdx = Len(repo_urls) THEN "returned" ELSE "loop"
           entry(r, listing) ==
               [url |-> repo_url, stars |-> r, listed |-> listing,
                star_gate |-> params.min_stars,
                repo_gate |-> params.min_repo_contributions,
                yearly_gate |-> params.min_yearly_contributions]
           examine(r) ==
               \E contributors \in FilterResults :
                   /\ all_contributors' = all_contributors \o contributors
                   /\ pmLog' = Append(pmLog, entry(r, TRUE))
                   /\ pmPc' = next
                   /\ repoIdx' = IF next = "loop" THEN repoIdx + 1 ELSE repoIdx
           skip(r) ==
               /\ pmLog' = Append(pmLog, entry(r, FALSE))
               /\ pmPc' = next
               /\ repoIdx' = IF next = "loop" THEN repoIdx + 1 ELSE repoIdx
               /\ UNCHANGED all_contributors
       IN  IF params.min_stars # 0
           THEN \E r \in StarResponses :
                    CASE get_repo_stars(r).raises ->
                            /\ pmLog' = Append(pmLog, entry(r, FALSE))
                            /\ pmPc' = "raised"
                            /\ UNCHANGED <<repoIdx, all_contributors>>
                      [] PassesStarGate(get_repo_stars(r), params.min_stars) -> examine(r)
                      [] OTHER -> skip(r)
           ELSE examine(NoStarRequest)
    /\ UNCHANGED <<mainArgs, mPc, params, repo_urls>>
    /\ UNCHANGED extractVars
    /\ UNCHANGED notDriver

\* process_multiple_repos(repo_urls, min_stars, min_repo_contributions,
\* min_yearly_contributions) is entered: lines 101-105.
EnterProcess(urls, min_stars, min_repo_contributions, min_yearly_contributions) ==
    /\ params' = [min_stars |-> min_stars,
                   min_repo_contributions |-> min_repo_contributions,
                   min_yearly_contributions |-> min_yearly_contributions]
    /\ repo_urls' = urls
    /\ all_contributors' = <<>>
    /\ pmLog' = <<>>
    /\ pmPc' = IF urls = <<>> THEN "returned" ELSE "loop"
    /\ repoIdx' = IF urls = <<>> THEN 0 ELSE 1

ParamSets ==
    [min_stars : {0, 100, 1000},
     min_repo_contributions : {DEFAULT_MIN_REPO_CONTRIBUTIONS},
     min_yearly_contributions : {DEFAULT_MIN_YEARLY_CONTRIBUTIONS}]

\* process_multiple_repos called on its own.
InitProcess ==
    /\ CommitsIdle
    /\ ConcIdle
    /\ BackupIdle
    /\ StoreIdle
    /\ CrawlIdle
    /\ EmailIdle
    /\ EventsIdle
    /\ YearlyIdle
    /\ ListIdle
    /\ ReadmeIdle
    /\ ExtractIdle
    /\ mainArgs = [min_stars |-> 0]
    /\ mPc = "idle"
    /\ params \in ParamSets
    /\ repo_urls \in SheetRepos \ {<<>>}
    /\ pmPc = "loop"
    /\ repoIdx = 1
    /\ all_contributors = <<>>
    /\ pmLog = <<>>

NextProcess == ProcessRepo

SpecProcess == InitProcess /\ [][NextProcess]_vars

\* The star count of a log entry is known and at least the minimum.
StarsSuffice(e) ==
    e.stars.kind = "count" /\ e.stars.count >= params.min_stars

\* C14: with a minimum star count configured, process_multiple_repos lists
\* the contributors of a repository only if its star count is known and at
\* least the minimum; a repository whose star count is lower or cannot be
\* determined is skipped without a listing call, and processing continues
\* with the next repository (the call ends only after the last one).
C14_AsClaimed ==
    params.min_stars # 0 =>
        /\ \A k \in 1..Len(pmLog) : pmLog[k].listed <=> StarsSuffice(pmLog[k])
        /\ pmPc \in {"returned", "raised"} =>
              /\ pmPc = "returned"
              /\ Len(pmLog) = Len(repo_urls)

\* main(google_sheet_url, start_row, end_row, master_repo, min_stars): the
\* run starts with the call of extract_repos, line 48.
InitMain ==
    /\ CommitsIdle
    /\ ConcIdle
    /\ BackupIdle
    /\ StoreIdle
    /\ CrawlIdle
    /\ EmailIdle
    /\ EventsIdle
    /\ YearlyIdle
    /\ ListIdle
    /\ ReadmeIdle
    /\ exArgs \in ExtractArgSets
    /\ exPc = "start"
    /\ exOut = Pending
    /\ exSeen = NoRequest
    /\ mainArgs \in [min_stars : {0, 1000}]
    /\ mPc = "extracting"
    /\ params = NoParams
    /\ repo_urls = <<>>
    /\ pmPc = "idle"
    /\ repoIdx = 0
    /\ all_contributors = <<>>
    /\ pmLog = <<>>

\* Lines 48-73 of main: extract_repos has ended; len(repo_urls), the test
\* for an empty list and the call of process_multiple_repos, whose
\* arguments are bound by position.
MainAfterExtract ==
    /\ mPc = "extracting"
    /\ exPc \in {"returned", "raised"}
    /\ CASE exOut.kind = "raised" ->
                /\ mPc' = "crashed"
                /\ UNCHANGED <<params, repo_urls, pmPc, repoIdx, all_contributors, pmLog>>
         [] exOut.kind = "None" ->
                \* len(None) raises TypeError
                /\ mPc' = "crashed"
                /\ UNCHANGED <<params, repo_urls, pmPc, repoIdx, all_contributors, pmLog>>
         [] exOut.kind = "list" /\ exOut.urls = <<>> ->
                /\ mPc' = "ended"
                /\ UNCHANGED <<params, repo_urls, pmPc, repoIdx, all_contributors, pmLog>>
         [] OTHER ->
                /\ mPc' = "processing"
                /\ EnterProcess(exOut.urls,
                                DEFAULT_MIN_REPO_CONTRIBUTIONS,
                                DEFAULT_MIN_YEARLY_CONTRIBUTIONS,
                                mainArgs.min_stars)
    /\ UNCHANGED mainArgs
    /\ UNCHANGED extractVars
    /\ UNCHANGED notDriver

\* Lines 71-95 of main: process_multiple_repos has ended; an exception of
\* it is not caught, otherwise the results are saved and summarised.
MainSave ==
    /\ mPc = "processing"
    /\ pmPc \in {"returned", "raised"}
    /\ mPc' = IF pmPc = "raised" THEN "crashed" ELSE "ended"
    /\ UNCHANGED <<mainArgs, params, repo_urls, pmPc, repoIdx, all_contributors, pmLog>>
    /\ UNCHANGED extractVars
    /\ UNCHANGED notDriver

NextMain ==
    \/ ExtractNoSource
    \/ ExtractFromSeed
    \/ ExtractFromSheet
    \/ MainAfterExtract
    \/ ProcessRepo
    \/ MainSave

SpecMain == InitMain /\ [][NextMain]_vars

\* C15: in a run of main each configured value reaches the stage it is
\* named for: the star gate uses main's min_stars, the repository stage the
\* configured minimum repository contributions, the yearly stage the
\* configured minimum yearly contributions.
C15_AsClaimed ==
    mPc \in {"processing", "ended", "crashed"} =>
        \A k \in 1..Len(pmLog) :
            /\ pmLog[k].star_gate = mainArgs.min_stars
            /\ pmLog[k].repo_gate = DEFAULT_MIN_REPO_CONTRIBUTIONS
            /\ pmLog[k].yearly_gate = DEFAULT_MIN_YEARLY_CONTRIBUTIONS

\* C19: only the absence of both input sources makes a run of main end with
\* an unhandled error; a failed README retrieval, an unparseable repository
\* URL, a failed star-count or contributor request and a failed lookup are
\* handled, and the run continues or ends normally.
C19_AsClaimed ==
    mPc = "crashed" =>
        exArgs.google_sheet_url = "None" /\ exArgs.master_repo = <<>>

\* C28: when no remote response is quota-exceeded, a run over a finite,
\* non-empty repository list terminates at the persistence step:
\* process_multiple_repos returns and main goes on to save_to_excel.
C28_AsClaimed ==
    (/\ mPc \in {"ended", "crashed"}
     /\ repo_urls # <<>>
     /\ ~QuotaExceeded(exSeen.last))
    => (mPc = "ended" /\ pmPc = "returned")

(***************************************************************************)
(* The name of the fallback file: the except branch of save_to_excel,      *)
(* csv_filename = filename.replace('.xlsx', '_backup.csv')                 *)
(***************************************************************************)

\* The pieces target filenames are made of.
NameTokens ==
    {<<"o", "u", "t">>,
     <<".", "x", "l", "s", "x">>,
     <<".", "x", "l", "s">>,
     <<".", "X", "L", "S", "X">>,
     <<".", "c", "s", "v">>}

MaxNameTokens == 3

Filenames == {Concat(ss) : ss \in SeqsUpTo(NameTokens, MaxNameTokens)} \ {<<>>}

\* str.replace(old, new): every occurrence of old, from the left, without
\* overlap.
RECURSIVE Replace(_, _, _)
Replace(str, old, new) ==
    IF Len(str) < Len(old) THEN str
    ELSE IF SubSeq(str, 1, Len(old)) = old
    THEN new \o Replace(SubSeq(str, Len(old) + 1, Len(str)), old, new)
    ELSE <<str[1]>> \o Replace(Tail(str), old, new)

\* Line 250.
BackupName(name) ==
    Replace(name, <<".", "x", "l", "s", "x">>,
                  <<"_", "b", "a", "c", "k", "u", "p", ".", "c", "s", "v">>)

InitBackup ==
    /\ CommitsIdle
    /\ ConcIdle
    /\ StoreIdle
    /\ CrawlIdle
    /\ EmailIdle
    /\ EventsIdle
    /\ YearlyIdle
    /\ ListIdle
    /\ ReadmeIdle
    /\ ExtractIdle
    /\ DriverIdle
    /\ filename \in Filenames
    /\ csv = [called |-> FALSE, csv_filename |-> <<>>]

\* The write of the workbook raised: lines 247-251 name the fallback file.
NameFallback ==
    /\ ~csv.called
    /\ csv' = [called |-> TRUE, csv_filename |-> BackupName(filename)]
    /\ UNCHANGED filename
    /\ UNCHANGED notBackup

NextBackup == NameFallback

SpecBackup == InitBackup /\ [][NextBackup]_vars

\* C25: for every target filename the fallback file written on persistence
\* failure has a name different from the target filename, so the fallback
\* never overwrites the primary target.
C25_AsClaimed ==
    csv.called => csv.csv_filename # filename

(***************************************************************************)
(* Two invocations of save_to_excel against the same target file.  Each    *)
(* file operation (the read of step 3, the write of step 6) is one step;   *)
(* the invocations share nothing but the files.                            *)
(***************************************************************************)

Invocations == {1, 2}

NoMerge ==
    [new_df |-> <<>>, combined_df |-> <<>>, removed_internal |-> 0,
     removed_external |-> 0, duplicates_found |-> {}, other_files_processed |-> 0]

Saver(p, c, ok, pre, m, wr) ==
    [pc |-> p, contributors |-> c, loadOk |-> ok, pre |-> pre, m |-> m, wr |-> wr]

\* The file an earlier run may have left.
EarlierFiles == {NoFile, [state |-> "ok", rows |-> <<Rec("carol", "r2")>>]}

InitConc ==
    /\ CommitsIdle
    /\ CrawlIdle
    /\ EmailIdle
    /\ EventsIdle
    /\ YearlyIdle
    /\ ListIdle
    /\ ReadmeIdle
    /\ ExtractIdle
    /\ DriverIdle
    /\ BackupIdle
    /\ target \in EarlierFiles
    /\ fallback = NoFallback
    /\ dir = {}
    /\ args = [contributors |-> <<>>, check_directory |-> "None"]
    /\ last = Idle
    /\ saver \in [Invocations ->
                    {Saver("start", c, TRUE, <<>>, NoMerge, "none") : c \in Batches}]
    /\ lastWriter = 0

\* Lines 77-79: an empty batch returns at once.
ConcReturnEmpty(i) ==
    /\ saver[i].pc = "start"
    /\ IsEmptyBatch(saver[i].contributors)
    /\ saver' = [saver EXCEPT ![i].pc = "done"]
    /\ UNCHANGED <<lastWriter, storeVars>>
    /\ UNCHANGED notConc

\* Steps 1-5, lines 81-178: the invocation reads the target file as it is
\* now and computes combined_df from it.
ConcLoad(i) ==
    /\ saver[i].pc = "start"
    /\ ~IsEmptyBatch(saver[i].contributors)
    /\ \E loadOk \in BOOLEAN :
          /\ (target.state # "ok" => loadOk)
          /\ saver' = [saver EXCEPT ![i] =
                Saver("loaded", @.contributors, loadOk, ExistingDf(loadOk),
                      Merge(@.contributors, "None", loadOk), "none")]
    /\ UNCHANGED <<lastWriter, storeVars>>
    /\ UNCHANGED notConc

\* Step 6, lines 183-252: the invocation replaces the target file by the
\* combined_df it computed when it loaded.
ConcWrite(i) ==
    /\ saver[i].pc = "loaded"
    /\ \E wr \in WriteOutcomes :
          /\ target' = WrittenTarget(saver[i].m, wr)
          /\ fallback' = IF wr = "ok" THEN fallback ELSE FallbackFile(saver[i].m, wr)
          /\ saver' = [saver EXCEPT ![i].pc = "done", ![i].wr = wr]
          /\ lastWriter' = CASE wr \in {"ok", "partial"} -> i
                              [] wr = "open_failed"       -> lastWriter
                              [] wr = "corrupt"           -> 0
    /\ UNCHANGED <<dir, args, last>>
    /\ UNCHANGED notConc

NextConc ==
    \E i \in Invocations : ConcReturnEmpty(i) \/ ConcLoad(i) \/ ConcWrite(i)

SpecConc == InitConc /\ [][NextConc]_vars

\* C21: two invocations against the same target file can interleave their
\* load and rewrite steps so that records one of them added are absent from
\* the final file.  The store holds nothing that orders them: an invocation
\* that has not loaded can load, and one that has loaded can write,
\* whatever the other is doing; and the file always holds exactly what its
\* last writer loaded plus that writer's own batch, so everything written
\* between that load and that write is lost.
C21_LastWriterWins ==
    /\ \A i \in Invocations :
          /\ (saver[i].pc = "start" /\ saver[i].contributors # <<>>) => ENABLED ConcLoad(i)
          /\ saver[i].pc = "loaded" => ENABLED ConcWrite(i)
    /\ \A i \in Invocations :
          lastWriter = i =>
            /\ target.state = "ok"
            /\ Usernames(target.rows) =
                  Usernames(saver[i].pre) \cup Usernames(saver[i].contributors)

\* Both invocations completed their write without any failure, and a record
\* the first one added is not in the final file.
C21_Witness ==
    /\ \A i \in Invocations : saver[i].pc = "done" /\ saver[i].wr = "ok" /\ saver[i].loadOk
    /\ \E i \in Invocations :
          \E k \in 1..Len(saver[i].m.new_df) :
              saver[i].m.new_df[k].username \notin Usernames(target.rows)

(***************************************************************************)
(* Commit scan of one repository:                                          *)
(* GitHubAPIClient._extract_email_from_repo_commits (github_api.py)        *)
(***************************************************************************)

\* params = {'author': username, 'per_page': 10}
PerPage == 10

OtherAddress == <<"o", "@", "k", ".", "i", "o">>

\* What _get_email_from_commit_api yields for a commit: None (status other
\* than 200, an exception, no email in the metadata), '' or an address.
FakeAddress == <<"a", "@", "T", "e", "s", "t", ".", "c", "o", "m">>

Fillers == {None, <<>>, FakeAddress}

ValidAddresses == {RealAddress, OtherAddress}

MaxHistory == 12

MaxValid == 2

\* The histories of up to MaxHistory commits of which at most MaxValid carry
\* an address that is not a filler.
Histories ==
    UNION { UNION { { [j \in 1..n |-> IF j \in S THEN f[j] ELSE fl] :
                        f \in [S -> ValidAddresses], fl \in Fillers } :
                    S \in {T \in SUBSET (1..n) : Cardinality(T) <= MaxValid} } :
            n \in 0..MaxHistory }

\* The commits the listing returns: the first page of per_page commits,
\* newest first; a commit is named by its place in the history.
CommitsPage(h) ==
    [k \in 1..(IF Len(h) < PerPage THEN Len(h) ELSE PerPage) |-> k]

\* reversed(commits)
Reversed_AsReturned(s) == s

Reversed(s) == [k \in 1..Len(s) |-> s[Len(s) + 1 - k]]

\* _get_email_from_commit_api(repo_name, commit_sha)
CommitEmail(sha) == history[sha]

ListingOutcomes == {"ok", "status", "raise"}

InitCommits ==
    /\ StoreIdle
    /\ CrawlIdle
    /\ EmailIdle
    /\ EventsIdle
    /\ YearlyIdle
    /\ ListIdle
    /\ ReadmeIdle
    /\ ExtractIdle
    /\ DriverIdle
    /\ BackupIdle
    /\ ConcIdle
    /\ history \in Histories
    /\ commitScan = [pc |-> "start"]

ScanDone(ok, inspected, result) ==
    [pc |-> "done", ok |-> ok, inspected |-> inspected, result |-> result]

\* Lines 281-290: the listing request; a status other than 200, an exception
\* or an empty list return None.
ListCommits ==
    /\ commitScan.pc = "start"
    /\ \E outcome \in ListingOutcomes :
          commitScan' = IF outcome # "ok" THEN ScanDone(FALSE, <<>>, None)
                  ELSE IF CommitsPage(history) = <<>> THEN ScanDone(TRUE, <<>>, None)
                  ELSE [pc |-> "scan", commits |-> Reversed(CommitsPage(history)),
                        pos |-> 1, inspected |-> <<>>]
    /\ UNCHANGED history
    /\ UNCHANGED notCommits

\* Lines 293-299: one turn of the for loop.
InspectCommit ==
    /\ commitScan.pc = "scan"
    /\ LET commit_sha == commitScan.commits[commitScan.pos]
           e == CommitEmail(commit_sha)
           inspected == Append(commitScan.inspected, commit_sha)
       IN  commitScan' = IF e # None /\ e # <<>> /\ is_valid_email(e)
                   THEN ScanDone(TRUE, inspected, e)
                   ELSE IF commitScan.pos = Len(commitScan.commits)
                   THEN ScanDone(TRUE, inspected, None)
                   ELSE [commitScan EXCEPT !.pos = @ + 1, !.inspected = inspected]
    /\ UNCHANGED history
    /\ UNCHANGED notCommits

NextCommits == ListCommits \/ InspectCommit

SpecCommits == InitCommits /\ [][NextCommits]_vars

\* The commits of the first page, oldest first, up to and including the
\* oldest one whose address is acceptable (all of them when none is).
Returned == IF Len(history) < 10 THEN Len(history) ELSE 10

\* The addresses of the histories that pass is_valid_email.
PassingAddresses == {a \in Fillers \cup ValidAddresses : is_valid_email(a)}

Acceptable == {j \in 1..Returned : history[j] \in PassingAddresses}

\* C23: _extract_email_from_repo_commits inspects at most 10 commits, in
\* oldest-first order (the reverse of the order returned), and returns the
\* email of the first inspected commit whose email passes is_valid_email; it
\* returns none when the list is empty, the request fails or no inspected
\* commit has a valid email.
C23_OldestValidOfTen ==
    LET inspected == commitScan.inspected
        acceptable == Acceptable
    IN  /\ commitScan.pc = "scan" =>
              /\ Len(inspected) < 10
              /\ \A k \in 1..Len(inspected) :
                    /\ inspected[k] = Returned + 1 - k
                    /\ inspected[k] \notin acceptable
        /\ commitScan.pc = "done" =>
              /\ Len(inspected) <= 10
              /\ \A k \in 1..Len(inspected) : inspected[k] = Returned + 1 - k
              /\ (~commitScan.ok \/ history = <<>>) =>
                    (commitScan.result = None /\ inspected = <<>>)
              /\ (commitScan.ok /\ acceptable = {}) =>
                    (commitScan.result = None /\ Len(inspected) = Returned)
              /\ (commitScan.ok /\ acceptable # {}) =>
                    LET oldest == CHOOSE j \in acceptable : \A k \in acceptable : k <= j
                    IN  /\ commitScan.result = history[oldest]
                        /\ inspected[Len(inspected)] = oldest
                        /\ Len(inspected) = Returned + 1 - oldest

\* More than ten commits, two of the ten returned carry different valid
\* addresses, and the scan returned the older one after passing over
\* commits without a valid address.
C23_Witness ==
    /\ commitScan.pc = "done"
    /\ commitScan.ok
    /\ Len(history) > 10
    /\ \E i, j \in Acceptable : i < j /\ history[i] # history[j] /\ commitScan.result = history[j]
    /\ Len(commitScan.inspected) > 1

====
